---- MODULE Spec2Model ----
(***************************************************************************)
(* Model of deepseek_chat_app.py: the reasoning graph held by an           *)
(* interactive window (flow_steps / flow_spec / num_bright_ref), the       *)
(* user-driven edits (亮少, 裁去, 反思, 发送, 继续交互), the background      *)
(* threads that merge AI fragments and start database saves, the retrieval *)
(* matcher (_load_from_database_by_query), the SQLite store written by     *)
(* _save_to_database, and _filter_redundant_nodes on arbitrary inputs.     *)
(*                                                                         *)
(* Texts are sequences of one-character strings so that strip(), lower()   *)
(* and the `in` substring test are computed as Python computes them.       *)
(***************************************************************************)
EXTENDS Integers, Sequences, FiniteSets, TLC

\* ------------------------------------------------------------------------
\* Bounds of the model (not program constants)
\* ------------------------------------------------------------------------
MaxNodes ==
    3
MaxShen ==
    2
MaxSaves ==
    2
MaxFragLen ==
    2
MaxBrightLen ==
    2
MaxRefines ==
    1

\* ------------------------------------------------------------------------
\* Program constants
\* ------------------------------------------------------------------------
DefaultBright ==
    2
BrightCap ==
    999
MinTimeoutSec ==
    5

\* ------------------------------------------------------------------------
\* Text helpers (str.strip, str.lower, `a in b`)
\* ------------------------------------------------------------------------
SetMax(S) ==
    CHOOSE x \in S : \A y \in S : y <= x

SetMin(S) ==
    CHOOSE x \in S : \A y \in S : x <= y

Min2(a, b) ==
    IF a <= b THEN a ELSE b

Max2(a, b) ==
    IF a >= b THEN a ELSE b

LowerChar(c) ==
    CASE c = "A" -> "a"
      [] c = "B" -> "b"
      [] c = "C" -> "c"
      [] OTHER -> c

Lower(s) ==
    [i \in 1..Len(s) |-> LowerChar(s[i])]

Strip(s) ==
    LET idx == {i \in 1..Len(s) : s[i] # " "}
    IN  IF idx = {} THEN <<>> ELSE SubSeq(s, SetMin(idx), SetMax(idx))

Contains(sub, s) ==
    \E i \in 0..(Len(s) - Len(sub)) : SubSeq(s, i + 1, i + Len(sub)) = sub

Prefix(s, n) ==
    SubSeq(s, 1, Min2(n, Len(s)))

\* ------------------------------------------------------------------------
\* State
\* ------------------------------------------------------------------------
VARIABLES
    flow_steps,     \* list of step texts of the window's graph
    nodes,          \* flow_spec['nodes'] (<<>> when flow_spec has no nodes)
    edges,          \* flow_spec['edges']
    num_bright,     \* num_bright_ref[0]
    send_btn,       \* "normal" | "disabled"
    continue_btn,   \* "normal" | "disabled"
    chat_empty,     \* chat_text holds no text yet
    shen,           \* self.shen, number of the interactive window
    workers,        \* background threads started by on_send/_on_fansi/do_auto_send
    after_enable,   \* an enable-buttons callback is queued with after(0, ..)
    save_pending,   \* a _save_to_database thread has been started, not yet run
    max_id_ever,    \* history: largest node id ever assigned in this graph
    mq,             \* state of one _load_from_database_by_query run
    st,             \* the SQLite store and the _save_to_database threads
    fx              \* one application of a pure function: arguments and result

evars ==
    <<flow_steps, nodes, edges, num_bright, send_btn, continue_btn, chat_empty,
      shen, workers, after_enable,
      save_pending, max_id_ever>>

vars ==
    <<flow_steps, nodes, edges, num_bright, send_btn, continue_btn, chat_empty,
      shen, workers, after_enable,
      save_pending, max_id_ever, mq, st, fx>>

\* ------------------------------------------------------------------------
\* Graphs and fragments the model draws its inputs from
\* ------------------------------------------------------------------------
Node(i, ty, tx) ==
    [id |-> i, type |-> ty, text |-> tx]

Edge(f, t, l) ==
    [from |-> f, to |-> t, label |-> l]

\* Graphs the main window can hand to the interactive window: a flow_spec
\* produced by the model (ids increasing, edges between its own nodes), or
\* flow_steps alone when no flow_spec could be generated.
InitGraphs ==
    { [steps |-> << <<"a">> >>,
       nodes |-> << Node(1, "rounded", <<"a">>) >>,
       edges |-> <<>>],
      [steps |-> << <<"a">>, <<"b">> >>,
       nodes |-> << Node(1, "rounded", <<"a">>), Node(2, "rect", <<"b">>) >>,
       edges |-> << Edge(1, 2, "") >>],
      [steps |-> << <<"a">>, <<"b">>, <<"c">> >>,
       nodes |-> << Node(1, "diamond", <<"a">>), Node(2, "rect", <<"b">>),
                    Node(3, "rect", <<"c">>) >>,
       edges |-> << Edge(1, 2, "y"), Edge(1, 3, "n") >>],
      [steps |-> << <<"c">>, <<"b">> >>,
       nodes |-> << Node(1, "rect", <<"c">>), Node(3, "rect", <<"b">>) >>,
       edges |-> << Edge(1, 3, "") >>],
      [steps |-> << <<"a">>, <<"b">> >>,
       nodes |-> <<>>,
       edges |-> <<>>] }

\* Fragments the completion service can answer with (ids local to the
\* fragment). The second has an edge to a node it does not contain and a
\* node whose text repeats "b"; the third repeats "a" in capitals.
Fragments ==
    { [nodes |-> << Node(1, "rect", <<"d">>) >>,
       edges |-> <<>>],
      [nodes |-> << Node(1, "diamond", <<"e">>), Node(2, "rect", <<" ", "b">>) >>,
       edges |-> << Edge(1, 2, "f"), Edge(2, 3, "") >>],
      [nodes |-> << Node(1, "rect", <<"A">>) >>,
       edges |-> <<>>] }

\* ------------------------------------------------------------------------
\* Pure functions of the graph
\* ------------------------------------------------------------------------
NodeTexts(ns) ==
    [i \in 1..Len(ns) |-> ns[i].text]

NodeIds(ns) ==
    {ns[i].id : i \in 1..Len(ns)}

RemoveAt(s, w) ==
    SubSeq(s, 1, w - 1) \o SubSeq(s, w + 1, Len(s))

\* total = len(flow_spec['nodes']) if flow_spec has nodes else len(flow_steps)
Total(steps, ns) ==
    IF ns # <<>> THEN Len(ns) ELSE Len(steps)

_is_flowchart_fully_bright(steps, ns, nb) ==
    Total(steps, ns) > 0 /\ nb >= Total(steps, ns)

\* update_continue_btn_state: the state it gives the continue button
update_continue_btn_state(steps, ns, nb) ==
    IF _is_flowchart_fully_bright(steps, ns, nb) THEN "disabled" ELSE "normal"

\* KeepEdges without the filter: every edge is kept after a truncation
KeepEdges_KeepAll(es, ns) ==
    es

\* [e for e in edges if e['from'] in keep_ids and e['to'] in keep_ids]
KeepEdges(es, ns) ==
    SelectSeq(es, LAMBDA e : e.from \in NodeIds(ns) /\ e.to \in NodeIds(ns))

\* _get_bright_node_texts(..).strip() == '': no bright node has visible text
BrightTextBlank(steps, ns, nb) ==
    LET texts == IF ns # <<>> THEN NodeTexts(Prefix(ns, nb)) ELSE Prefix(steps, nb)
    IN  nb <= 0 \/ \A i \in 1..Len(texts) : Strip(texts[i]) = <<>>

IsRedundant_OneWay(t_lower, bright_list) ==
    \E k \in 1..Len(bright_list) : Contains(bright_list[k], t_lower)

IsRedundant(t_lower, bright_list) ==
    \E k \in 1..Len(bright_list) :
        Contains(bright_list[k], t_lower) \/ Contains(t_lower, bright_list[k])

_filter_redundant_nodes_NoFallback(new_nodes, bright_texts) ==
    IF bright_texts = <<>> THEN new_nodes
    ELSE LET stripped == [k \in 1..Len(bright_texts) |-> Lower(Strip(bright_texts[k]))]
             bright_list == SelectSeq(stripped, LAMBDA b : b # <<>>)
         IN  SelectSeq(new_nodes, LAMBDA n :
                 /\ Strip(n.text) # <<>>
                 /\ ~IsRedundant(Lower(Strip(n.text)), bright_list))

_filter_redundant_nodes(new_nodes, bright_texts) ==
    IF bright_texts = <<>> THEN new_nodes
    ELSE LET stripped == [k \in 1..Len(bright_texts) |-> Lower(Strip(bright_texts[k]))]
             bright_list == SelectSeq(stripped, LAMBDA b : b # <<>>)
             filtered == SelectSeq(new_nodes, LAMBDA n :
                             /\ Strip(n.text) # <<>>
                             /\ ~IsRedundant(Lower(Strip(n.text)), bright_list))
         IN  IF filtered # <<>> THEN filtered ELSE new_nodes

\* flow_spec['nodes'] / ['edges'] built from flow_steps when flow_spec has none
NodesFromSteps(steps) ==
    [i \in 1..Len(steps) |-> Node(i, "rect", steps[i])]

EdgesFromSteps(steps) ==
    [i \in 1..(Len(steps) - 1) |-> Edge(i, i + 1, "")]

\* id_map = {n['id']: base_id + i for i, n in enumerate(new_nodes)}; a local
\* id that occurs twice keeps the last index, as a dict comprehension does
IdMap(new_nodes, base_id) ==
    [l \in NodeIds(new_nodes) |->
        base_id + SetMax({i \in 1..Len(new_nodes) : new_nodes[i].id = l}) - 1]

RemapEdges_Unmapped(new_edges, id_map) ==
    new_edges

RemapEdges(new_edges, id_map) ==
    LET kept == SelectSeq(new_edges,
                    LAMBDA e : e.from \in DOMAIN id_map /\ e.to \in DOMAIN id_map)
    IN  [k \in 1..Len(kept) |->
            Edge(id_map[kept[k].from], id_map[kept[k].to], kept[k].label)]

AppendedNodes(new_nodes, base_id) ==
    [i \in 1..Len(new_nodes) |->
        Node(base_id + i - 1, new_nodes[i].type, new_nodes[i].text)]

\* last_id = max(n['id'] for n in nodes)
LastId(ns) ==
    SetMax(NodeIds(ns))

\* num_bright = 2 if num_bright is None else max(1, min(num_bright, 999));
\* 0 stands for None
OpenBright(arg) ==
    IF arg = 0 THEN DefaultBright ELSE Max2(1, Min2(arg, BrightCap))

NextBright_ToLength(steps, ns, nb) ==
    IF ns # <<>> THEN Len(ns)
    ELSE IF Len(steps) = 0 THEN BrightCap ELSE Len(steps)

\* next_bright computed by on_continue
NextBright(steps, ns, nb) ==
    IF ns # <<>> THEN Min2(nb + 1, Len(ns))
    ELSE Min2(nb + 1, IF Len(steps) = 0 THEN BrightCap ELSE Len(steps))

FragmentInFlight ==
    \E w \in 1..Len(workers) : workers[w].kind \in {"send", "fansi"}

\* on_send and _on_fansi disable the send button until their thread has
\* finished ("完成后才允许继续交互"); the model follows a user who starts the
\* next 发送/反思 only then, so one fragment request is in flight at a time.
\* 亮少, 裁去 and 继续交互 stay available while it is in flight.
OneRequestAtATime ==
    ~FragmentInFlight

NewWorker(kind, nb) ==
    [kind |-> kind, pc |-> "request", nb |-> nb, last_id |-> 0,
     new_nodes |-> <<>>, new_edges |-> <<>>]

MqOff ==
    [pc |-> "off"]

StOff ==
    [on |-> FALSE]

FxOff ==
    [pc |-> "off"]

\* ------------------------------------------------------------------------
\* Opening the interactive window (_on_interactive_mode,
\* _open_interactive_window). The window is taken from the moment its two
\* start-up timers have fired: top.after(100, do_auto_send) and
\* top.after(150, update_continue_btn_state).
\* ------------------------------------------------------------------------
\* do_auto_send: starts its thread unless the bright text is blank
AutoWorkers(steps, ns, nb) ==
    IF BrightTextBlank(steps, ns, nb) THEN <<>> ELSE << NewWorker("auto", 0) >>

AutoSendBtn(steps, ns, nb) ==
    IF BrightTextBlank(steps, ns, nb) THEN "normal" ELSE "disabled"

InitEditor ==
    /\ \E g \in InitGraphs :
        /\ flow_steps = g.steps
        /\ nodes = g.nodes
        /\ edges = g.edges
        /\ max_id_ever = IF g.nodes = <<>> THEN 0 ELSE LastId(g.nodes)
    /\ num_bright = OpenBright(0)
    /\ send_btn = AutoSendBtn(flow_steps, nodes, num_bright)
    /\ continue_btn = update_continue_btn_state(flow_steps, nodes, num_bright)
    /\ chat_empty = TRUE
    /\ shen = 1
    /\ workers = AutoWorkers(flow_steps, nodes, num_bright)
    /\ after_enable = FALSE
    /\ save_pending = FALSE

Init ==
    /\ InitEditor
    /\ mq = MqOff
    /\ st = StOff
    /\ fx = FxOff

\* ------------------------------------------------------------------------
\* User actions on the interactive window (run on the Tk main thread)
\* ------------------------------------------------------------------------
DimBright_ByTwo(nb) ==
    nb - 2

\* num_bright_ref[0] = nb - 1
DimBright(nb) ==
    nb - 1

\* 亮少: the last bright node stops being bright
_on_liangshao ==
    /\ num_bright > 0
    /\ num_bright' = DimBright(num_bright)
    /\ continue_btn' = update_continue_btn_state(flow_steps, nodes, num_bright')
    /\ UNCHANGED <<flow_steps, nodes, edges, send_btn, chat_empty, shen,
                   workers, after_enable,
                   save_pending, max_id_ever, mq, st, fx>>

\* the graph after 裁去 keeps new_len nodes
CutSteps(steps, new_len) ==
    IF new_len <= 0 THEN <<>> ELSE Prefix(steps, new_len)

CutNodes_OffByOne(ns, new_len) ==
    IF new_len <= 0 THEN <<>> ELSE Prefix(ns, new_len + 1)

CutNodes(ns, new_len) ==
    IF new_len <= 0 THEN <<>> ELSE Prefix(ns, new_len)

CutEdges(es, ns, new_len) ==
    IF ns = <<>> THEN es
    ELSE IF new_len <= 0 THEN <<>>
    ELSE KeepEdges(es, Prefix(ns, new_len))

CutBright_Unchanged(nb, new_len) ==
    nb

\* num_bright_ref[0] = min(nb, new_len)
CutBright(nb, new_len) ==
    Min2(nb, new_len)

\* 裁去: the user picks sel in 1..nb in a modal dialog; node sel and all
\* nodes after it are removed
_on_caiqu(sel) ==
    /\ num_bright > 0
    /\ Total(flow_steps, nodes) > 0
    /\ sel \in 1..num_bright
    /\ LET new_len == sel - 1
       IN  /\ flow_steps' = CutSteps(flow_steps, new_len)
           /\ nodes' = CutNodes(nodes, new_len)
           /\ edges' = CutEdges(edges, nodes, new_len)
           /\ num_bright' = CutBright(num_bright, new_len)
    /\ continue_btn' = update_continue_btn_state(flow_steps', nodes', num_bright')
    /\ UNCHANGED <<send_btn, chat_empty, shen, workers,
                   after_enable, save_pending, max_id_ever, mq, st, fx>>

\* the truncation to the bright prefix made by _on_fansi before its request
FansiTruncNodes(ns, nb) ==
    IF ns # <<>> /\ nb < Len(ns) THEN Prefix(ns, nb) ELSE ns

FansiTruncEdges(es, ns, nb) ==
    IF ns # <<>> /\ nb < Len(ns) THEN KeepEdges(es, Prefix(ns, nb)) ELSE es

\* 反思: drop the dim nodes, then ask for a new fragment on a thread
_on_fansi(use_bright) ==
    /\ Total(flow_steps, nodes) > 0
    /\ num_bright > 0
    /\ ~chat_empty
    /\ ~(BrightTextBlank(flow_steps, nodes, num_bright) /\ use_bright)
    /\ OneRequestAtATime
    /\ flow_steps' = Prefix(flow_steps, num_bright)
    /\ nodes' = FansiTruncNodes(nodes, num_bright)
    /\ edges' = FansiTruncEdges(edges, nodes, num_bright)
    /\ send_btn' = "disabled"
    /\ workers' = Append(workers, NewWorker("fansi", num_bright))
    /\ UNCHANGED <<num_bright, continue_btn, chat_empty, shen, after_enable, save_pending,
                   max_id_ever, mq, st, fx>>

\* the truncation to the bright prefix made by on_send before its request
SendTruncSteps(steps, nb) ==
    IF nb < Len(steps) THEN Prefix(steps, nb) ELSE steps

SendTruncNodes(ns, nb) ==
    IF ns # <<>> /\ nb < Len(ns) THEN Prefix(ns, nb) ELSE ns

SendTruncEdges(es, ns, nb) ==
    IF ns # <<>> /\ nb < Len(ns) THEN KeepEdges(es, Prefix(ns, nb)) ELSE es

\* 发送: by the button (only when it is enabled) or by <Return> in the entry,
\* which is bound to on_send whatever the button's state
on_send(via) ==
    /\ via = "button" => send_btn = "normal"
    /\ OneRequestAtATime
    /\ chat_empty' = FALSE
    /\ flow_steps' = SendTruncSteps(flow_steps, num_bright)
    /\ nodes' = SendTruncNodes(nodes, num_bright)
    /\ edges' = SendTruncEdges(edges, nodes, num_bright)
    /\ send_btn' = "disabled"
    /\ continue_btn' = "disabled"
    /\ workers' = Append(workers, NewWorker("send", 0))
    /\ UNCHANGED <<num_bright, shen, after_enable, save_pending, max_id_ever, mq, st, fx>>

\* 继续交互: closes the window and opens the next one on a copy of the graph;
\* threads and callbacks of the closed window no longer reach the new one
on_continue ==
    /\ continue_btn = "normal"
    /\ shen < MaxShen
    /\ shen' = shen + 1
    /\ num_bright' = OpenBright(NextBright(flow_steps, nodes, num_bright))
    /\ send_btn' = AutoSendBtn(flow_steps, nodes, num_bright')
    /\ continue_btn' = update_continue_btn_state(flow_steps, nodes, num_bright')
    /\ chat_empty' = TRUE
    /\ workers' = AutoWorkers(flow_steps, nodes, num_bright')
    /\ after_enable' = FALSE
    /\ save_pending' = FALSE
    /\ UNCHANGED <<flow_steps, nodes, edges, max_id_ever, mq, st, fx>>

\* ------------------------------------------------------------------------
\* after(0, ..) callback of the threads (Tk main thread)
\* ------------------------------------------------------------------------
\* top.after(0, lambda: (send_btn.configure(state=NORMAL), ..,
\*                       update_continue_btn_state()))
enable_buttons ==
    /\ after_enable
    /\ after_enable' = FALSE
    /\ send_btn' = "normal"
    /\ continue_btn' = update_continue_btn_state(flow_steps, nodes, num_bright)
    /\ UNCHANGED <<flow_steps, nodes, edges, num_bright, chat_empty, shen,
                   workers, save_pending,
                   max_id_ever, mq, st, fx>>

\* ------------------------------------------------------------------------
\* Background threads (the run() closures)
\* ------------------------------------------------------------------------
\* finally: of on_send.run and do_auto_send.run starts a _save_to_database
\* thread when the graph is fully bright at that moment
StartsSave(kind, steps, ns, nb) ==
    kind \in {"send", "auto"} /\ _is_flowchart_fully_bright(steps, ns, nb)

\* do_auto_send.run: one completion call (the reply is appended to the
\* chat when the call did not raise), then finally:
AutoReply(w, ok) ==
    /\ w \in 1..Len(workers)
    /\ workers[w].kind = "auto"
    /\ chat_empty' = (chat_empty /\ ~ok)
    /\ save_pending' = (save_pending \/ StartsSave("auto", flow_steps, nodes, num_bright))
    /\ after_enable' = TRUE
    /\ workers' = RemoveAt(workers, w)
    /\ UNCHANGED <<flow_steps, nodes, edges, num_bright, send_btn, continue_btn,
                   shen, max_id_ever, mq, st, fx>>

\* on_send.run / _on_fansi.run when the completion call raises or no fragment
\* can be parsed from the reply: nothing is merged, finally: runs
NoFragment(w) ==
    /\ w \in 1..Len(workers)
    /\ workers[w].kind \in {"send", "fansi"}
    /\ workers[w].pc = "request"
    /\ save_pending' = (save_pending \/
                        StartsSave(workers[w].kind, flow_steps, nodes, num_bright))
    /\ after_enable' = TRUE
    /\ workers' = RemoveAt(workers, w)
    /\ UNCHANGED <<flow_steps, nodes, edges, num_bright, send_btn, continue_btn,
                   chat_empty, shen, max_id_ever, mq, st, fx>>

\* nb used for bright_texts: on_send.run reads num_bright_ref[0] when the
\* reply arrives, _on_fansi.run uses the nb captured when 反思 was clicked
BrightNb(wk) ==
    IF wk.kind = "send" THEN num_bright ELSE wk.nb

BrightTexts(steps, ns, nb) ==
    IF ns # <<>> THEN NodeTexts(Prefix(ns, nb)) ELSE Prefix(steps, nb)

\* on_send.run / _on_fansi.run from the reply up to `base_id = last_id + 1`:
\* the fragment is filtered, flow_spec is built from flow_steps when it has no
\* nodes, and last_id is read. max() of an empty node list raises, which ends
\* the thread through except/finally without a merge.
FragmentReply(w, frag) ==
    /\ w \in 1..Len(workers)
    /\ workers[w].kind \in {"send", "fansi"}
    /\ workers[w].pc = "request"
    /\ LET wk == workers[w]
           new_nodes == _filter_redundant_nodes(frag.nodes,
                            BrightTexts(flow_steps, nodes, BrightNb(wk)))
           build == nodes = <<>> /\ flow_steps # <<>>
           nodes1 == IF build THEN NodesFromSteps(flow_steps) ELSE nodes
           edges1 == IF build THEN EdgesFromSteps(flow_steps) ELSE edges
       IN  /\ Len(nodes1) + Len(new_nodes) <= MaxNodes
           /\ IF nodes1 = <<>>
              THEN /\ save_pending' = (save_pending \/
                           StartsSave(wk.kind, flow_steps, nodes, num_bright))
                   /\ after_enable' = TRUE
                   /\ workers' = RemoveAt(workers, w)
                   /\ UNCHANGED <<nodes, edges, max_id_ever>>
              ELSE /\ nodes' = nodes1
                   /\ edges' = edges1
                   /\ max_id_ever' = IF build
                                     THEN Max2(max_id_ever, Len(flow_steps))
                                     ELSE max_id_ever
                   /\ workers' = [workers EXCEPT ![w] =
                                     [wk EXCEPT !.pc = "merge",
                                                !.last_id = LastId(nodes1),
                                                !.new_nodes = new_nodes,
                                                !.new_edges = frag.edges]]
                   /\ UNCHANGED <<save_pending, after_enable>>
    /\ UNCHANGED <<flow_steps, num_bright, send_btn, continue_btn, chat_empty,
                   shen, mq, st, fx>>

\* on_send.run / _on_fansi.run from the connecting edge to finally:
MergeAppend(w) ==
    /\ w \in 1..Len(workers)
    /\ workers[w].pc = "merge"
    /\ Len(nodes) + Len(workers[w].new_nodes) <= MaxNodes
    /\ LET wk == workers[w]
           base_id == wk.last_id + 1
           id_map == IdMap(wk.new_nodes, base_id)
       IN  /\ edges' = (edges \o << Edge(wk.last_id, base_id, "") >>)
                           \o RemapEdges(wk.new_edges, id_map)
           /\ nodes' = nodes \o AppendedNodes(wk.new_nodes, base_id)
           /\ flow_steps' = flow_steps \o NodeTexts(wk.new_nodes)
           /\ max_id_ever' = Max2(max_id_ever, base_id + Len(wk.new_nodes) - 1)
           /\ save_pending' = (save_pending \/
                        StartsSave(wk.kind, flow_steps', nodes', num_bright))
    /\ after_enable' = TRUE
    /\ workers' = RemoveAt(workers, w)
    /\ UNCHANGED <<num_bright, send_btn, continue_btn, chat_empty, shen,
                   mq, st, fx>>

\* the thread started at finally: runs _save_to_database(flow_steps, flow_spec, ..)
\* on the window's live lists
SaveRun ==
    /\ save_pending
    /\ save_pending' = FALSE
    /\ UNCHANGED <<flow_steps, nodes, edges, num_bright, send_btn, continue_btn,
                   chat_empty, shen, workers,
                   after_enable, max_id_ever, mq, st, fx>>

\* ------------------------------------------------------------------------
\* The interactive window as a state machine
\* ------------------------------------------------------------------------
Next ==
    \/ _on_liangshao
    \/ \E sel \in 1..MaxNodes : _on_caiqu(sel)
    \/ \E use_bright \in BOOLEAN : _on_fansi(use_bright)
    \/ \E via \in {"button", "return"} : on_send(via)
    \/ on_continue
    \/ enable_buttons
    \/ \E w \in 1..2, ok \in BOOLEAN : AutoReply(w, ok)
    \/ \E w \in 1..2 : NoFragment(w)
    \/ \E w \in 1..2, frag \in Fragments : FragmentReply(w, frag)
    \/ \E w \in 1..2 : MergeAppend(w)
    \/ SaveRun

Spec ==
    Init /\ [][Next]_vars

\* The same window when the user also waits for the running fragment request
\* before 裁去, so that truncations and merges run one at a time.
NextSerial ==
    \/ _on_liangshao
    \/ \E sel \in 1..MaxNodes : ~FragmentInFlight /\ _on_caiqu(sel)
    \/ \E use_bright \in BOOLEAN : _on_fansi(use_bright)
    \/ \E via \in {"button", "return"} : on_send(via)
    \/ on_continue
    \/ enable_buttons
    \/ \E w \in 1..2, ok \in BOOLEAN : AutoReply(w, ok)
    \/ \E w \in 1..2 : NoFragment(w)
    \/ \E w \in 1..2, frag \in Fragments : FragmentReply(w, frag)
    \/ \E w \in 1..2 : MergeAppend(w)
    \/ SaveRun

SpecSerial ==
    Init /\ [][NextSerial]_vars

\* ------------------------------------------------------------------------
\* Properties of the interactive window
\* ------------------------------------------------------------------------
\* C1: every id given to a newly appended node is strictly greater than every
\* id that was ever assigned in the graph before, so the id of a pruned node
\* is never given to a later node.
C1_AppendedIdsNeverReused ==
    [][\A i \in (Len(nodes) + 1)..Len(nodes') : nodes'[i].id > max_id_ever]_vars

EdgesValid ==
    \A k \in 1..Len(edges) :
        edges[k].from \in NodeIds(nodes) /\ edges[k].to \in NodeIds(nodes)

\* C2: when truncations and merges run one at a time, every edge's from and
\* to are ids of nodes that are in the graph.
C2_EdgesReferenceNodes ==
    EdgesValid

\* C2 witness: the three-node graph was truncated to its bright prefix and a
\* fragment was merged onto it; the edge to the pruned node is gone
C2_Witness ==
    /\ Len(nodes) = 3
    /\ nodes[1].type = "diamond"
    /\ nodes[3].text = <<"d">>
    /\ edges = << Edge(1, 2, "y"), Edge(2, 3, "") >>

\* C3: in every reachable state the bright cursor satisfies
\* 0 <= cursor <= number of nodes of the graph.
C3_CursorWithinLength ==
    0 <= num_bright /\ num_bright <= Total(flow_steps, nodes)

\* C4: a continuation step never leaves the cursor greater than the graph's
\* length, and the graph is fully bright exactly when it is non-empty and the
\* cursor has reached its length.
C4_ContinueWithinLength ==
    /\ [][shen' = shen + 1 => num_bright' <= Total(flow_steps', nodes')]_vars
    /\ [](_is_flowchart_fully_bright(flow_steps, nodes, num_bright)
            <=> (Len(flow_steps) > 0 /\ num_bright >= Len(flow_steps)))

\* C5: whenever the graph is full (cursor >= length > 0) the continue button
\* is disabled, also while a reflect or send request is in flight.
C5_FullDisablesContinue ==
    _is_flowchart_fully_bright(flow_steps, nodes, num_bright)
        => continue_btn = "disabled"

\* C6: whenever a _save_to_database thread reads the graph, the graph is
\* fully bright at that moment.
C6_SaveReadsFullyBright ==
    [][(save_pending /\ ~save_pending' /\ shen' = shen)
         => _is_flowchart_fully_bright(flow_steps, nodes, num_bright)]_vars

\* ------------------------------------------------------------------------
\* Retrieval matcher: stored labels, queries and the substring search
\* ------------------------------------------------------------------------
Row(sid, label) ==
    [session_id |-> sid, label_text |-> label]

\* Contents of the retrieval_label table (ORDER BY id ASC); a NULL label_text
\* reads as the empty text.
RowSets ==
    { << Row(1, <<"c", "A", "B">>), Row(2, <<"a", "b">>) >>,
      << Row(1, <<"a", "d">>), Row(2, <<"d", "b">>), Row(3, <<" ", "d", "a", "b">>) >>,
      << Row(2, <<"a", "c">>), Row(1, <<"c", "b">>) >>,
      << Row(1, <<>>), Row(2, <<" ", "d">>) >>,
      <<>> }

\* Texts typed into the retrieval dialog.
Queries ==
    { <<"a", "b">>, <<" ", "A", "b">>, <<"b", "c">>, <<"a", "b", "c">>, <<" ">> }

\* Integers that re.findall(r'\d+', body) finds in the AI's reply, in order
\* (<<>>: the reply holds no number, also the reply of an unknown mode).
Bodies ==
    { <<>>, <<0>>, <<1>>, <<2>>, <<9, 3>> }

\* retrieval_timeout_seconds as found in the configuration file.
ConfigTimeouts ==
    {1, 6}

SessionIds(rows) ==
    {rows[k].session_id : k \in 1..Len(rows)}

LabelKey_NoLower(label_text) ==
    Strip(label_text)

\* label = (r.get('label_text') or '').strip().lower()
LabelKey(label_text) ==
    Lower(Strip(label_text))

HasCommon_AtLeastTwo(q_lower, label, ln) ==
    /\ ln >= 2
    /\ \E i \in 0..(Len(q_lower) - ln) :
          Contains(SubSeq(q_lower, i + 1, i + ln), label)

\* some sub = q_lower[i:i+ln] with `sub in label`
HasCommon(q_lower, label, ln) ==
    \E i \in 0..(Len(q_lower) - ln) :
        Contains(SubSeq(q_lower, i + 1, i + ln), label)

RECURSIVE RowScan_TieLast(_, _, _, _, _)
RowScan_TieLast(q_lower, label, sid, ln, best) ==
    IF ln <= 0 THEN best
    ELSE IF HasCommon(q_lower, label, ln) /\ ln >= best.len
         THEN RowScan_TieLast(q_lower, label, sid, ln - 1, [sid |-> sid, len |-> ln])
         ELSE RowScan_TieLast(q_lower, label, sid, ln - 1, best)

\* the loop `for ln in range(min(len(q), len(label)), 0, -1)` for one row;
\* best is [sid, len]
RECURSIVE RowScan(_, _, _, _, _)
RowScan(q_lower, label, sid, ln, best) ==
    IF ln <= 0 THEN best
    ELSE IF HasCommon(q_lower, label, ln) /\ ln > best.len
         THEN RowScan(q_lower, label, sid, ln - 1, [sid |-> sid, len |-> ln])
         ELSE RowScan(q_lower, label, sid, ln - 1, best)

\* the loop `for r in rows` from row k on
RECURSIVE RowsScan(_, _, _, _)
RowsScan(rows, q_lower, k, best) ==
    IF k > Len(rows) THEN best.sid
    ELSE LET label == LabelKey(rows[k].label_text)
         IN  IF label = <<>> THEN RowsScan(rows, q_lower, k + 1, best)
             ELSE IF Contains(q_lower, label) THEN rows[k].session_id
             ELSE RowsScan(rows, q_lower, k + 1,
                           RowScan(q_lower, label, rows[k].session_id,
                                   Min2(Len(q_lower), Len(label)), best))

_string_search_retrieval_label(rows, query) ==
    IF query = <<>> \/ rows = <<>> THEN 0
    ELSE IF Strip(query) = <<>> THEN 0
    ELSE RowsScan(rows, Lower(Strip(query)), 1, [sid |-> 0, len |-> 0])

FirstStored_FirstInteger(body, sids) ==
    IF body = <<>> THEN 0 ELSE Head(body)

\* do_ai_match: the first integer of the reply that is a stored session_id
RECURSIVE FirstStored(_, _)
FirstStored(body, sids) ==
    IF body = <<>> THEN 0
    ELSE IF Head(body) \in sids THEN Head(body)
    ELSE FirstStored(Tail(body), sids)

\* ------------------------------------------------------------------------
\* Retrieval matcher: one run of _load_from_database_by_query
\* ------------------------------------------------------------------------
\* No interactive window is open while the retrieval dialog is used.
EditorIdle ==
    /\ flow_steps = <<>>
    /\ nodes = <<>>
    /\ edges = <<>>
    /\ num_bright = 0
    /\ send_btn = "normal"
    /\ continue_btn = "disabled"
    /\ chat_empty = TRUE
    /\ shen = 0
    /\ workers = <<>>
    /\ after_enable = FALSE
    /\ save_pending = FALSE
    /\ max_id_ever = 0

InitMatch ==
    /\ EditorIdle
    /\ st = StOff
    /\ fx = FxOff
    /\ \E uq \in Queries, db \in RowSets, cfg \in ConfigTimeouts :
         mq = [pc |-> "call", user_query |-> uq, db |-> db, cfg |-> cfg,
               query |-> <<>>, rows |-> <<>>, timeout_sec |-> 0, elapsed |-> 0,
               ai |-> "idle", body |-> <<>>, ai_value |-> 0, session_id |-> 0,
               timedOut |-> FALSE, raised |-> FALSE, msg |-> "none",
               loaded |-> 0]

\* entry: a blank description is refused, otherwise the run thread starts
_load_from_database_by_query ==
    /\ mq.pc = "call"
    /\ IF Strip(mq.user_query) = <<>>
         THEN mq' = [mq EXCEPT !.pc = "done", !.msg = "need_query"]
         ELSE mq' = [mq EXCEPT !.pc = "read", !.query = Strip(mq.user_query)]
    /\ UNCHANGED <<evars, st, fx>>

\* run(): read the labels, build the prompt, submit do_ai_match to the
\* one-worker executor and start waiting on fut.result(timeout=timeout_sec)
run_submit(dbok) ==
    /\ mq.pc = "read"
    /\ IF ~dbok
         THEN mq' = [mq EXCEPT !.pc = "done", !.msg = "store_error"]
         ELSE IF mq.db = <<>>
         THEN mq' = [mq EXCEPT !.pc = "done", !.msg = "no_labels"]
         ELSE mq' = [mq EXCEPT !.pc = "waiting", !.rows = mq.db,
                               !.session_id = 0,
                               !.timeout_sec = Max2(MinTimeoutSec, mq.cfg),
                               !.ai = "running"]
    /\ UNCHANGED <<evars, st, fx>>

\* the executor's worker: the completion call returns a reply
do_ai_match_return(body) ==
    /\ mq.ai = "running"
    /\ mq' = [mq EXCEPT !.ai = "returned", !.body = body,
                        !.ai_value = FirstStored(body, SessionIds(mq.rows))]
    /\ UNCHANGED <<evars, st, fx>>

\* the executor's worker: the completion call raises
do_ai_match_raise ==
    /\ mq.ai = "running"
    /\ mq' = [mq EXCEPT !.ai = "raised"]
    /\ UNCHANGED <<evars, st, fx>>

\* one second passes while run() waits in fut.result
Tick ==
    /\ mq.pc = "waiting"
    /\ mq.elapsed < mq.timeout_sec
    /\ mq' = [mq EXCEPT !.elapsed = mq.elapsed + 1]
    /\ UNCHANGED <<evars, st, fx>>

result_ok_FallbackOnZero ==
    /\ mq.pc = "waiting"
    /\ mq.ai = "returned"
    /\ mq' = [mq EXCEPT !.pc = "decide",
                        !.session_id =
                            IF mq.ai_value # 0 THEN mq.ai_value
                            ELSE _string_search_retrieval_label(mq.rows, mq.query)]
    /\ UNCHANGED <<evars, st, fx>>

\* fut.result returns the worker's value; the with block ends at once
result_ok ==
    /\ mq.pc = "waiting"
    /\ mq.ai = "returned"
    /\ mq' = [mq EXCEPT !.pc = "decide", !.session_id = mq.ai_value]
    /\ UNCHANGED <<evars, st, fx>>

result_raised_Unhandled ==
    /\ mq.pc = "waiting"
    /\ mq.ai = "raised"
    /\ mq' = [mq EXCEPT !.pc = "done", !.raised = TRUE, !.msg = "ai_error"]
    /\ UNCHANGED <<evars, st, fx>>

\* fut.result re-raises the worker's exception: `except Exception`
result_raised ==
    /\ mq.pc = "waiting"
    /\ mq.ai = "raised"
    /\ mq' = [mq EXCEPT !.pc = "decide", !.raised = TRUE,
                        !.session_id = _string_search_retrieval_label(mq.rows, mq.query)]
    /\ UNCHANGED <<evars, st, fx>>

\* fut.result raises FuturesTimeoutError inside the with block; leaving the
\* block runs ThreadPoolExecutor.__exit__, that is shutdown(wait=True)
result_timeout ==
    /\ mq.pc = "waiting"
    /\ mq.ai = "running"
    /\ mq.elapsed = mq.timeout_sec
    /\ mq' = [mq EXCEPT !.pc = "shutdown", !.timedOut = TRUE]
    /\ UNCHANGED <<evars, st, fx>>

executor_exit_LateApplied ==
    /\ mq.pc = "shutdown"
    /\ mq.ai # "running"
    /\ mq' = [mq EXCEPT !.pc = "decide",
                        !.session_id =
                            IF mq.ai = "returned" THEN mq.ai_value
                            ELSE _string_search_retrieval_label(mq.rows, mq.query)]
    /\ UNCHANGED <<evars, st, fx>>

\* shutdown(wait=True) returns once the worker has finished; the timeout
\* error then reaches `except FuturesTimeoutError`
executor_exit ==
    /\ mq.pc = "shutdown"
    /\ mq.ai # "running"
    /\ mq' = [mq EXCEPT !.pc = "decide",
                        !.session_id = _string_search_retrieval_label(mq.rows, mq.query)]
    /\ UNCHANGED <<evars, st, fx>>

\* the rest of run(): no match, or the session is loaded and handed to
\* on_loaded (dbok = FALSE: the session cannot be read)
deliver(dbok) ==
    /\ mq.pc = "decide"
    /\ IF mq.session_id = 0
         THEN mq' = [mq EXCEPT !.pc = "done", !.msg = "not_found"]
         ELSE IF ~dbok
         THEN mq' = [mq EXCEPT !.pc = "done", !.msg = "store_error"]
         ELSE mq' = [mq EXCEPT !.pc = "done", !.msg = "loaded",
                               !.loaded = mq.session_id]
    /\ UNCHANGED <<evars, st, fx>>

NextMatch ==
    \/ _load_from_database_by_query
    \/ \E dbok \in BOOLEAN : run_submit(dbok)
    \/ \E body \in Bodies : do_ai_match_return(body)
    \/ do_ai_match_raise
    \/ Tick
    \/ result_ok
    \/ result_raised
    \/ result_timeout
    \/ executor_exit
    \/ \E dbok \in BOOLEAN : deliver(dbok)

SpecMatch ==
    InitMatch /\ [][NextMatch]_vars

\* The steps of run() and the passing of time are always taken when they can
\* be; nothing makes the completion service answer.
FairSpecMatch ==
    /\ SpecMatch
    /\ WF_vars(_load_from_database_by_query)
    /\ WF_vars(\E dbok \in BOOLEAN : run_submit(dbok))
    /\ WF_vars(Tick)
    /\ WF_vars(result_ok)
    /\ WF_vars(result_raised)
    /\ WF_vars(result_timeout)
    /\ WF_vars(executor_exit)
    /\ WF_vars(\E dbok \in BOOLEAN : deliver(dbok))

\* ------------------------------------------------------------------------
\* Properties of the retrieval matcher
\* ------------------------------------------------------------------------
\* the labels of rows that contain the query, case-insensitively
ContainingRows(rows, q) ==
    {k \in 1..Len(rows) : Contains(Lower(q), Lower(rows[k].label_text))}

FirstContaining(rows, q) ==
    rows[SetMin(ContainingRows(rows, q))].session_id

\* matchQuery has produced its sessionId
Matched ==
    mq.pc \in {"decide", "done"}

\* the AI pass raised an error or exceeded its timeout
AIPassFailed ==
    mq.raised \/ mq.timedOut

\* C7 (as stated): for a non-empty query and labels of which at least one
\* contains the query case-insensitively, matchQuery returns the sessionId of
\* the first such label in stored order, whatever the completion service does.
C7_FirstContainingWins ==
    (Matched /\ mq.query # <<>> /\ ContainingRows(mq.rows, mq.query) # {})
        => mq.session_id = FirstContaining(mq.rows, mq.query)

\* C7 (amended): for a non-empty query and labels of which at least one
\* contains the query case-insensitively, matchQuery returns the sessionId of
\* the first such label in stored order whenever the AI pass raises an error
\* or times out.
C7_FallbackFirstContainingWins ==
    (Matched /\ AIPassFailed /\ mq.query # <<>>
       /\ ContainingRows(mq.rows, mq.query) # {})
        => mq.session_id = FirstContaining(mq.rows, mq.query)

C7_Witness ==
    /\ mq.pc = "done"
    /\ mq.raised
    /\ mq.user_query = <<" ", "A", "b">>
    /\ Len(mq.rows) = 3
    /\ ContainingRows(mq.rows, mq.query) = {3}
    /\ mq.loaded = 3

\* C8: whenever the AI pass raises an error or exceeds its timeout, the error
\* is not shown to the user and matchQuery's result is exactly the result of
\* the substring fallback on the same query and labels.
C8_FailureFallsBack ==
    AIPassFailed
        => /\ mq.msg # "ai_error"
           /\ Matched
                => mq.session_id = _string_search_retrieval_label(mq.rows, mq.query)
           /\ mq.pc = "done"
                => \/ mq.msg = "not_found" /\ mq.session_id = 0
                   \/ mq.msg = "store_error" /\ mq.session_id # 0
                   \/ mq.msg = "loaded" /\ mq.loaded = mq.session_id

C8_Witness ==
    /\ mq.pc = "done"
    /\ mq.raised
    /\ ContainingRows(mq.rows, mq.query) = {}
    /\ mq.session_id = 2
    /\ mq.msg = "loaded"

\* C9: when the AI pass exceeds its timeout, matchQuery goes on to the
\* fallback and eventually delivers its result, even if the completion call
\* never returns.
C9_TimeoutDelivers ==
    mq.timedOut ~> (mq.pc = "done")

\* C10: once the AI pass has timed out, a completion result that arrives
\* later is never applied: the sessionId that matchQuery produces and loads
\* is the fallback's.
C10_LateReplyDiscarded ==
    (mq.timedOut /\ mq.ai = "returned" /\ Matched)
        => /\ mq.session_id = _string_search_retrieval_label(mq.rows, mq.query)
           /\ mq.msg = "loaded" => mq.loaded = mq.session_id

C10_Witness ==
    /\ mq.pc = "done"
    /\ mq.timedOut
    /\ mq.ai = "returned"
    /\ mq.ai_value = 2
    /\ mq.msg = "loaded"
    /\ mq.loaded = 1

\* length of the longest contiguous substring that the query and a label,
\* read as the matcher reads it (trimmed), share case-insensitively
CommonLen(q, label_text) ==
    LET a == Lower(q)
        b == Lower(Strip(label_text))
    IN  SetMax({n \in 0..Min2(Len(a), Len(b)) :
                  \E i \in 0..(Len(a) - n), j \in 0..(Len(b) - n) :
                      SubSeq(a, i + 1, i + n) = SubSeq(b, j + 1, j + n)})

MaxCommonLen(rows, q) ==
    SetMax({CommonLen(q, rows[k].label_text) : k \in 1..Len(rows)})

\* the first row, in stored order, that reaches the maximal common length
FirstLongest(rows, q) ==
    rows[SetMin({k \in 1..Len(rows) :
                   CommonLen(q, rows[k].label_text) = MaxCommonLen(rows, q)})].session_id

\* C11: when no label contains the whole query, the substring fallback
\* returns the sessionId of the label whose longest contiguous common
\* substring with the query (case-insensitive) is longest, and among labels
\* of the same maximal length the one stored first.
C11_FallbackLongestFirstWins ==
    (Matched /\ AIPassFailed /\ mq.query # <<>>
       /\ ContainingRows(mq.rows, mq.query) = {}
       /\ MaxCommonLen(mq.rows, mq.query) > 0)
        => mq.session_id = FirstLongest(mq.rows, mq.query)

C11_Witness ==
    /\ mq.pc = "done"
    /\ mq.timedOut
    /\ mq.query = <<"a", "b", "c">>
    /\ Len(mq.rows) = 2
    /\ CommonLen(mq.query, mq.rows[1].label_text) = 1
    /\ CommonLen(mq.query, mq.rows[2].label_text) = 1
    /\ mq.loaded = mq.rows[1].session_id

\* ------------------------------------------------------------------------
\* Persistence: the SQLite store, _save_to_database and the session load
\* ------------------------------------------------------------------------
\* a node of flow_spec['nodes']; db = 0 stands for no db_content_id
SNode(i, ty, tx, db) ==
    [id |-> i, type |-> ty, text |-> tx, db_content_id |-> db]

SGraph(steps, ns, es) ==
    [flow_steps |-> steps, nodes |-> ns, edges |-> es]

\* Graphs handed to _save_to_database: a single node, a branching graph that
\* repeats a (text, type) pair, a graph of steps only, a node whose type is
\* blank, and an empty graph.
StoreGraphs ==
    { SGraph(<< <<"a">> >>, << SNode(1, "rect", <<"a">>, 0) >>, <<>>),
      SGraph(<< <<"a">>, <<"b">>, <<"a">> >>,
             << SNode(1, "diamond", <<"a">>, 0), SNode(2, "rect", <<"b">>, 0),
                SNode(3, "diamond", <<"a">>, 0) >>,
             << Edge(1, 2, "y"), Edge(1, 3, "n") >>),
      SGraph(<< <<"a">>, <<"b">> >>, <<>>, <<>>),
      SGraph(<< <<"b">>, <<"b">> >>,
             << SNode(1, "", <<"b">>, 0), SNode(2, "rect", <<"b">>, 0) >>,
             << Edge(1, 2, "") >>),
      SGraph(<<>>, <<>>, <<>>) }

Savers ==
    1..2

\* n.get('type', 'rect') or 'rect'
TypeOrRect(ty) ==
    IF ty = "" THEN "rect" ELSE ty

\* nodes_data of _save_to_database: (content, node_type, db_content_id)
NodesData(g) ==
    IF g.nodes # <<>>
      THEN [k \in 1..Len(g.nodes) |->
              [content |-> g.nodes[k].text,
               ntype |-> TypeOrRect(g.nodes[k].type),
               db |-> g.nodes[k].db_content_id]]
      ELSE [k \in 1..Len(g.flow_steps) |->
              [content |-> g.flow_steps[k], ntype |-> "rect", db |-> 0]]

\* concatenation of a list of texts (''.join)
RECURSIVE Join(_)
Join(texts) ==
    IF texts = <<>> THEN <<>> ELSE Head(texts) \o Join(Tail(texts))

LabelSep ==
    <<" ", "|", " ">>

\* _build_retrieval_label with the default configuration
\* (raw_parts = after_first_and_before_last; the length limits are not
\* reached by the texts of the model)
_build_retrieval_label(nodes_data) ==
    LET contents == [k \in 1..Len(nodes_data) |-> nodes_data[k].content]
        after_first == Join(Tail(contents))
        before_last == Join(SubSeq(contents, 1, Len(contents) - 1))
        parts == IF after_first # <<>> \/ before_last # <<>>
                   THEN <<after_first, before_last>>
                   ELSE <<contents[1]>>
        kept == SelectSeq(parts, LAMBDA t : Strip(t) # <<>>)
        joined == IF kept = <<>> THEN <<>>
                  ELSE IF Len(kept) = 1 THEN kept[1]
                  ELSE kept[1] \o LabelSep \o kept[2]
    IN  IF nodes_data = <<>> THEN <<>>
        ELSE IF Len(contents) = 1 THEN contents[1]
        ELSE IF Strip(joined) # <<>> THEN Strip(joined)
        ELSE contents[1]

\* Replies of the completion service to the label prompt (<<>>: empty reply)
LabelReplies ==
    { <<>>, <<"s">> }

\* _apply_label_text_format in format_mode 'ai': the stripped reply, or the
\* raw label when the reply is empty or the call fails
_apply_label_text_format(raw_label, reply, ok) ==
    IF Strip(raw_label) = <<>> THEN raw_label
    ELSE IF ok /\ Strip(reply) # <<>> THEN Strip(reply)
    ELSE Strip(raw_label)

\* rows of the three tables; a row's id is its position (AUTOINCREMENT, no
\* row is ever deleted); `by` is history: the number of the save that wrote it
ContentRow(content, ntype, by) ==
    [content |-> content, node_type |-> ntype, by |-> by]

SessionRow(node_ids, by) ==
    [node_sequence |-> node_ids, by |-> by]

LabelRow(sid, label, by) ==
    [session_id |-> sid, label_text |-> label, by |-> by]

SaverIdle ==
    [pc |-> "idle", num |-> 0, g |-> SGraph(<<>>, <<>>, <<>>), k |-> 0,
     node_ids |-> <<>>, txc |-> <<>>, txs |-> <<>>, txl |-> <<>>,
     sid |-> 0, ret |-> "none", err |-> FALSE]

Visible_CommittedOnly(s) ==
    st.content

\* The flowchart_content rows the connection of saver s sees: the committed
\* rows and the rows of its own open transaction.
Visible(s) ==
    st.content \o st.savers[s].txc

MatchIds_Missed(rows, content, ntype) ==
    {}

\* SELECT id FROM flowchart_content WHERE content = ? AND node_type = ?
MatchIds(rows, content, ntype) ==
    {i \in 1..Len(rows) : rows[i].content = content /\ rows[i].node_type = ntype}

\* The graph that run() builds from session sid (lines 988-1016): one node
\* per id of node_sequence whose content row exists, numbered by position,
\* and the edges i -> i+1.
LoadSession(content, session, sid) ==
    LET node_ids == session[sid].node_sequence
        found == SelectSeq([i \in 1..Len(node_ids) |-> i],
                           LAMBDA i : node_ids[i] \in 1..Len(content))
        ns == [j \in 1..Len(found) |->
                 SNode(found[j],
                       TypeOrRect(content[node_ids[found[j]]].node_type),
                       content[node_ids[found[j]]].content,
                       node_ids[found[j]])]
    IN  SGraph([j \in 1..Len(ns) |-> ns[j].text], ns,
               [i \in 1..(Len(ns) - 1) |-> Edge(i, i + 1, "")])

InitStore ==
    /\ EditorIdle
    /\ mq = MqOff
    /\ fx = FxOff
    /\ st = [on |-> TRUE, content |-> <<>>, session |-> <<>>, label |-> <<>>,
             lock |-> 0, started |-> 0, refines |-> 0,
             savers |-> [s \in Savers |-> SaverIdle],
             loaded |-> SGraph(<<>>, <<>>, <<>>)]

SaverAtRest(s) ==
    st.savers[s].pc \in {"idle", "ok", "failed"}

\* _save_to_database is entered with graph g: the connection is opened and
\* nodes_data is built; without nodes the save returns False
save_begin(s, g, connok) ==
    /\ SaverAtRest(s)
    /\ st.started < MaxSaves
    /\ LET base == [SaverIdle EXCEPT !.num = st.started + 1, !.g = g]
           sv == IF ~connok
                   THEN [base EXCEPT !.pc = "failed", !.ret = "False", !.err = TRUE]
                 ELSE IF NodesData(g) = <<>>
                   THEN [base EXCEPT !.pc = "failed", !.ret = "False"]
                 ELSE [base EXCEPT !.pc = "select", !.k = 1]
       IN  st' = [st EXCEPT !.started = st.started + 1, !.savers[s] = sv]
    /\ UNCHANGED <<evars, mq, fx>>

\* pc after node k has received its content id
AfterNode(sv) ==
    IF sv.k >= Len(NodesData(sv.g)) THEN "session" ELSE "select"

\* one turn of `for content, ntype, db_content_id in nodes_data`: a node that
\* carries db_content_id reuses it; otherwise the SELECT of
\* _get_or_insert_content_id runs and a found id is returned
save_select(s) ==
    /\ st.savers[s].pc = "select"
    /\ LET sv == st.savers[s]
           d == NodesData(sv.g)[sv.k]
           m == MatchIds(Visible(s), d.content, d.ntype)
       IN  IF d.db # 0
             THEN st' = [st EXCEPT !.savers[s] =
                           [sv EXCEPT !.node_ids = Append(sv.node_ids, d.db),
                                      !.k = sv.k + 1, !.pc = AfterNode(sv)]]
           ELSE IF m # {}
             THEN \E id \in m :
                    st' = [st EXCEPT !.savers[s] =
                             [sv EXCEPT !.node_ids = Append(sv.node_ids, id),
                                        !.k = sv.k + 1, !.pc = AfterNode(sv)]]
           ELSE st' = [st EXCEPT !.savers[s] = [sv EXCEPT !.pc = "insert"]]
    /\ UNCHANGED <<evars, mq, fx>>

save_insert_StaleId(s) ==
    /\ st.savers[s].pc = "insert"
    /\ st.lock \in {0, s}
    /\ LET sv == st.savers[s]
           d == NodesData(sv.g)[sv.k]
           id == Len(st.content) + 1
       IN  st' = [st EXCEPT !.lock = s,
                            !.savers[s] =
                              [sv EXCEPT !.txc = Append(sv.txc, ContentRow(d.content, d.ntype, sv.num)),
                                         !.node_ids = Append(sv.node_ids, id),
                                         !.k = sv.k + 1, !.pc = AfterNode(sv)]]
    /\ UNCHANGED <<evars, mq, fx>>

\* the INSERT of _get_or_insert_content_id: it opens the connection's write
\* transaction (at most one connection writes at a time) and returns lastrowid
save_insert(s) ==
    /\ st.savers[s].pc = "insert"
    /\ st.lock \in {0, s}
    /\ LET sv == st.savers[s]
           d == NodesData(sv.g)[sv.k]
           id == Len(st.content) + Len(sv.txc) + 1
       IN  st' = [st EXCEPT !.lock = s,
                            !.savers[s] =
                              [sv EXCEPT !.txc = Append(sv.txc, ContentRow(d.content, d.ntype, sv.num)),
                                         !.node_ids = Append(sv.node_ids, id),
                                         !.k = sv.k + 1, !.pc = AfterNode(sv)]]
    /\ UNCHANGED <<evars, mq, fx>>

save_session_Committed(s) ==
    /\ st.savers[s].pc = "session"
    /\ st.lock \in {0, s}
    /\ LET sv == st.savers[s]
       IN  st' = [st EXCEPT !.lock = s,
                            !.session = Append(st.session, SessionRow(sv.node_ids, sv.num)),
                            !.savers[s] =
                              [sv EXCEPT !.sid = Len(st.session) + 1,
                                         !.pc = "label"]]
    /\ UNCHANGED <<evars, mq, fx>>

\* INSERT INTO flowchart_session; session_id = cur.lastrowid
save_session(s) ==
    /\ st.savers[s].pc = "session"
    /\ st.lock \in {0, s}
    /\ LET sv == st.savers[s]
       IN  st' = [st EXCEPT !.lock = s,
                            !.savers[s] =
                              [sv EXCEPT !.txs = <<SessionRow(sv.node_ids, sv.num)>>,
                                         !.sid = Len(st.session) + 1,
                                         !.pc = "label"]]
    /\ UNCHANGED <<evars, mq, fx>>

\* the label is built and formatted, then INSERT INTO retrieval_label
save_label(s, reply, ok) ==
    /\ st.savers[s].pc = "label"
    /\ LET sv == st.savers[s]
           raw_label == _build_retrieval_label(NodesData(sv.g))
           label_text == _apply_label_text_format(raw_label, reply, ok)
           stored == IF label_text # <<>> THEN label_text ELSE raw_label
       IN  st' = [st EXCEPT !.savers[s] =
                     [sv EXCEPT !.txl = <<LabelRow(sv.sid, stored, sv.num)>>,
                                !.pc = "commit"]]
    /\ UNCHANGED <<evars, mq, fx>>

\* conn.commit(); return True
save_commit(s) ==
    /\ st.savers[s].pc = "commit"
    /\ LET sv == st.savers[s]
       IN  st' = [st EXCEPT !.content = st.content \o sv.txc,
                            !.session = st.session \o sv.txs,
                            !.label = st.label \o sv.txl,
                            !.lock = 0,
                            !.savers[s] =
                              [sv EXCEPT !.txc = <<>>, !.txs = <<>>, !.txl = <<>>,
                                         !.pc = "ok", !.ret = "True"]]
    /\ UNCHANGED <<evars, mq, fx>>

save_fail_KeepsRows(s) ==
    /\ st.savers[s].pc \in {"select", "insert", "session", "label", "commit"}
    /\ LET sv == st.savers[s]
       IN  st' = [st EXCEPT !.content = st.content \o sv.txc,
                            !.session = st.session \o sv.txs,
                            !.label = st.label \o sv.txl,
                            !.lock = IF st.lock = s THEN 0 ELSE st.lock,
                            !.savers[s] =
                              [sv EXCEPT !.txc = <<>>, !.txs = <<>>, !.txl = <<>>,
                                         !.pc = "failed", !.ret = "False",
                                         !.err = TRUE]]
    /\ UNCHANGED <<evars, mq, fx>>

\* a statement of the save raises (I/O error, or `database is locked` when
\* another connection keeps the write transaction): except Exception rolls
\* the transaction back and the save returns False
save_fail(s) ==
    /\ st.savers[s].pc \in {"select", "insert", "session", "label", "commit"}
    /\ LET sv == st.savers[s]
       IN  st' = [st EXCEPT !.lock = IF st.lock = s THEN 0 ELSE st.lock,
                            !.savers[s] =
                              [sv EXCEPT !.txc = <<>>, !.txs = <<>>, !.txl = <<>>,
                                         !.pc = "failed", !.ret = "False",
                                         !.err = TRUE]]
    /\ UNCHANGED <<evars, mq, fx>>

\* a stored session is loaded (run(), lines 988-1019) and becomes the graph
\* of the application
load_session(sid) ==
    /\ sid \in 1..Len(st.session)
    /\ st.loaded # LoadSession(st.content, st.session, sid)
    /\ st' = [st EXCEPT !.loaded = LoadSession(st.content, st.session, sid)]
    /\ UNCHANGED <<evars, mq, fx>>

\* the literal '\n\n[交互更新] ' that precedes the appended content
RefineMarker ==
    <<"~">>

\* interaction_content handed to _refine_last_node_by_interaction
RefineContents ==
    { <<" ", "x">>, <<" ">> }

\* num_bright when the interaction ends
RefineCursors ==
    { 0, 2 }

RefinedNodes_KeepsRef(ns, nb, content) ==
    IF ns # <<>> /\ nb > 0
      THEN [ns EXCEPT ![Min2(nb, Len(ns))] =
              [@ EXCEPT !.text = Strip(@) \o RefineMarker \o content]]
      ELSE ns

\* the node at min(num_bright, len(nodes)) - 1 gets the content appended to
\* its stripped text and loses db_content_id
RefinedNodes(ns, nb, content) ==
    IF ns # <<>> /\ nb > 0
      THEN [ns EXCEPT ![Min2(nb, Len(ns))] =
              [@ EXCEPT !.text = Strip(@) \o RefineMarker \o content,
                        !.db_content_id = 0]]
      ELSE ns

RefinedSteps(steps, nb, content) ==
    IF steps # <<>> /\ nb > 0
      THEN [steps EXCEPT ![Min2(nb, Len(steps))] = Strip(@) \o RefineMarker \o content]
      ELSE steps

\* _refine_last_node_by_interaction on the loaded graph: a blank content or
\* a cursor of 0 changes nothing and returns False; st.refines counts the
\* calls that returned True
_refine_last_node_by_interaction(nb, interaction_content) ==
    /\ st.refines < MaxRefines
    /\ st.loaded.flow_steps # <<>>
    /\ LET content == Strip(interaction_content)
           g == st.loaded
           updated == content # <<>> /\ nb > 0
       IN  st' = [st EXCEPT
                    !.refines = IF updated THEN st.refines + 1 ELSE st.refines,
                    !.loaded = IF content = <<>> THEN g
                               ELSE SGraph(RefinedSteps(g.flow_steps, nb, content),
                                           RefinedNodes(g.nodes, nb, content),
                                           g.edges)]
    /\ UNCHANGED <<evars, mq, fx>>

\* graphs a save can be given: a graph built in the application or the graph
\* loaded last
SaveInputs ==
    StoreGraphs \cup {st.loaded}

NextStore ==
    \/ \E s \in Savers, g \in SaveInputs, connok \in BOOLEAN : save_begin(s, g, connok)
    \/ \E s \in Savers : save_select(s)
    \/ \E s \in Savers : save_insert(s)
    \/ \E s \in Savers : save_session(s)
    \/ \E s \in Savers, reply \in LabelReplies, ok \in BOOLEAN : save_label(s, reply, ok)
    \/ \E s \in Savers : save_commit(s)
    \/ \E s \in Savers : save_fail(s)
    \/ \E sid \in 1..MaxSaves : load_session(sid)

SpecStore ==
    InitStore /\ [][NextStore]_vars

\* The same store when saves are started one after the other.
NextStoreSerial ==
    \/ \E s \in Savers, g \in SaveInputs, connok \in BOOLEAN :
          (\A o \in Savers : SaverAtRest(o)) /\ save_begin(s, g, connok)
    \/ \E s \in Savers : save_select(s)
    \/ \E s \in Savers : save_insert(s)
    \/ \E s \in Savers : save_session(s)
    \/ \E s \in Savers, reply \in LabelReplies, ok \in BOOLEAN : save_label(s, reply, ok)
    \/ \E s \in Savers : save_commit(s)
    \/ \E s \in Savers : save_fail(s)
    \/ \E sid \in 1..MaxSaves : load_session(sid)

SpecStoreSerial ==
    InitStore /\ [][NextStoreSerial]_vars

\* saves that run one at a time on a store that can be opened, with the
\* loaded graph refined between them
NextStoreRefine ==
    \/ \E s \in Savers, g \in SaveInputs :
          (\A o \in Savers : SaverAtRest(o)) /\ save_begin(s, g, TRUE)
    \/ \E s \in Savers : save_select(s)
    \/ \E s \in Savers : save_insert(s)
    \/ \E s \in Savers : save_session(s)
    \/ \E s \in Savers, reply \in LabelReplies : save_label(s, reply, TRUE)
    \/ \E s \in Savers : save_commit(s)
    \/ \E sid \in 1..MaxSaves : load_session(sid)
    \/ \E nb \in RefineCursors, c \in RefineContents :
          _refine_last_node_by_interaction(nb, c)

SpecStoreRefine ==
    InitStore /\ [][NextStoreRefine]_vars

\* ------------------------------------------------------------------------
\* Properties of the store
\* ------------------------------------------------------------------------
SamePair(r1, r2) ==
    r1.content = r2.content /\ r1.node_type = r2.node_type

\* the (text, kind) pairs of a graph's nodes, a blank kind read as 'rect'
GraphPairs(g) ==
    IF g.nodes # <<>>
      THEN [k \in 1..Len(g.nodes) |-> <<g.nodes[k].text, TypeOrRect(g.nodes[k].type)>>]
      ELSE [k \in 1..Len(g.flow_steps) |-> <<g.flow_steps[k], "rect">>]

\* saves whose ids are valid: running or returned True
Live(s) ==
    st.savers[s].pc \notin {"idle", "failed"}

\* C12: with a single sequential caller, getOrInsert called twice with the
\* same (text, kind) returns the same id both times, and no sequence of
\* sequential calls stores two rows with an identical (text, kind).
C12_SequentialNoDuplicates ==
    /\ \A i, j \in 1..Len(st.content) :
         SamePair(st.content[i], st.content[j]) => i = j
    /\ \A s, t \in Savers :
         (Live(s) /\ Live(t)) =>
           \A i \in 1..Len(st.savers[s].node_ids), j \in 1..Len(st.savers[t].node_ids) :
             GraphPairs(st.savers[s].g)[i] = GraphPairs(st.savers[t].g)[j]
               => st.savers[s].node_ids[i] = st.savers[t].node_ids[j]

C12_Witness ==
    /\ st.savers[1].pc = "ok" /\ st.savers[2].pc = "ok"
    /\ st.savers[1].num = 1 /\ st.savers[2].num = 2
    /\ st.savers[1].g = st.savers[2].g
    /\ Len(st.savers[1].g.nodes) = 3
    /\ st.savers[1].node_ids = <<1, 2, 1>>
    /\ st.savers[2].node_ids = <<1, 2, 1>>
    /\ Len(st.content) = 2
    /\ Len(st.session) = 2

\* C13: two distinct stored rows with an identical (text, kind) are always
\* the work of two different saves (a single save never repeats a pair);
\* two saves that run concurrently with the same pair can store such rows.
C13_DuplicatesOnlyAcrossSaves ==
    \A i, j \in 1..Len(st.content) :
        (i # j /\ SamePair(st.content[i], st.content[j]))
            => st.content[i].by # st.content[j].by

C13_Witness ==
    /\ st.savers[1].pc = "ok" /\ st.savers[2].pc = "ok"
    /\ Len(st.content) = 2
    /\ SamePair(st.content[1], st.content[2])
    /\ st.content[1].by # st.content[2].by

\* C14: for every non-empty graph g, loading the session that saving g
\* produced yields the same ordered (text, kind) sequence as g's nodes, with
\* node ids 1..n and exactly the edges i -> i+1, whatever edges g had.
C14_SaveLoadRoundTrip ==
    \A s \in Savers :
        st.savers[s].pc = "ok" =>
            LET g == st.savers[s].g
                l == LoadSession(st.content, st.session, st.savers[s].sid)
                n == Len(GraphPairs(g))
            IN  /\ n > 0
                /\ Len(l.nodes) = n
                /\ \A k \in 1..n :
                     /\ <<l.nodes[k].text, l.nodes[k].type>> = GraphPairs(g)[k]
                     /\ l.nodes[k].id = k
                /\ l.edges = [i \in 1..(n - 1) |-> Edge(i, i + 1, "")]

C14_Witness ==
    /\ st.savers[1].pc = "ok"
    /\ st.savers[1].g.edges = << Edge(1, 2, "y"), Edge(1, 3, "n") >>
    /\ st.loaded = LoadSession(st.content, st.session, st.savers[1].sid)
    /\ st.loaded.edges = << Edge(1, 2, ""), Edge(2, 3, "") >>
    /\ st.loaded.nodes[3].type = "diamond"

\* C19: when a step of a save fails (connection, content insert, session
\* insert, label insert), the save returns False and the store holds none of
\* the rows written by that save attempt.
C19_FailedSaveLeavesNoRows ==
    \A s \in Savers :
        (st.savers[s].pc = "failed" /\ st.savers[s].err) =>
            /\ st.savers[s].ret = "False"
            /\ \A i \in 1..Len(st.content) : st.content[i].by # st.savers[s].num
            /\ \A i \in 1..Len(st.session) : st.session[i].by # st.savers[s].num
            /\ \A i \in 1..Len(st.label) : st.label[i].by # st.savers[s].num

C19_Witness ==
    /\ st.savers[1].pc = "failed"
    /\ st.savers[1].err
    /\ st.savers[1].sid = 1
    /\ Len(st.savers[1].node_ids) = 3
    /\ st.content = <<>>
    /\ st.session = <<>>

\* ------------------------------------------------------------------------
\* Properties of the merge and of the redundancy filter
\* ------------------------------------------------------------------------
\* position in the fragment of the node with local id l
LocalPos(new_nodes, l) ==
    CHOOSE i \in 1..Len(new_nodes) : new_nodes[i].id = l

\* what the claim expects of a merge of fragment (new_nodes, new_edges) onto
\* the non-empty graph (ns, es): L is the largest id of ns
ExpectedMergeNodes(ns, new_nodes) ==
    LET L == SetMax({ns[k].id : k \in 1..Len(ns)})
    IN  ns \o [i \in 1..Len(new_nodes) |->
                 Node(L + i, new_nodes[i].type, new_nodes[i].text)]

ExpectedMergeEdges(ns, es, new_nodes, new_edges) ==
    LET L == SetMax({ns[k].id : k \in 1..Len(ns)})
        locals == {new_nodes[i].id : i \in 1..Len(new_nodes)}
        kept == SelectSeq(new_edges, LAMBDA e : e.from \in locals /\ e.to \in locals)
    IN  (es \o << Edge(ns[Len(ns)].id, L + 1, "") >>)
           \o [k \in 1..Len(kept) |->
                 Edge(L + LocalPos(new_nodes, kept[k].from),
                      L + LocalPos(new_nodes, kept[k].to), kept[k].label)]

SeqsUpTo(S, n) ==
    UNION {[1..k -> S] : k \in 0..n}

\* texts of fragment nodes: plain, upper case, padded, longer, empty, blank
FilterNodeTexts ==
    { <<"a">>, <<"A">>, <<" ", "b">>, <<"a", "b">>, <<>>, <<" ">>, <<"c">> }

\* texts of bright nodes
FilterBrightTexts ==
    { <<"a">>, <<"b", " ">>, <<>>, <<"B", "c">> }

FilterFragments ==
    { [i \in 1..Len(ts) |-> Node(i, "rect", ts[i])] :
        ts \in (SeqsUpTo(FilterNodeTexts, MaxFragLen) \ {<<>>}) }

InitFilter ==
    /\ EditorIdle
    /\ mq = MqOff
    /\ st = StOff
    /\ \E new_nodes \in FilterFragments,
          bright_texts \in SeqsUpTo(FilterBrightTexts, MaxBrightLen) :
         fx = [pc |-> "call", new_nodes |-> new_nodes,
               bright_texts |-> bright_texts, out |-> <<>>]

filter_apply ==
    /\ fx.pc = "call"
    /\ fx' = [fx EXCEPT !.pc = "done",
                        !.out = _filter_redundant_nodes(fx.new_nodes, fx.bright_texts)]
    /\ UNCHANGED <<evars, mq, st>>

NextFilter ==
    filter_apply

SpecFilter ==
    InitFilter /\ [][NextFilter]_vars

\* a fragment text is redundant with the bright texts when, trimmed and
\* compared case-insensitively, it is a substring of a bright text or
\* contains a bright text that is not blank
RedundantWith(text, bright_texts) ==
    LET t == Lower(Strip(text))
    IN  \E k \in 1..Len(bright_texts) :
            LET b == Lower(Strip(bright_texts[k]))
            IN  Contains(t, b) \/ (b # <<>> /\ Contains(b, t))

NonRedundant(new_nodes, bright_texts) ==
    SelectSeq(new_nodes, LAMBDA n : ~RedundantWith(n.text, bright_texts))

C17_FilterNeverEmpties ==
    fx.pc = "done"
        => /\ fx.new_nodes # <<>> => fx.out # <<>>
           /\ NonRedundant(fx.new_nodes, fx.bright_texts) = <<>>
                => fx.out = fx.new_nodes

C17_Witness ==
    /\ fx.pc = "done"
    /\ fx.bright_texts = << <<"B", "c">>, <<"a">> >>
    /\ NodeTexts(fx.new_nodes) = << <<"c">>, <<"a", "b">> >>
    /\ fx.out = fx.new_nodes

\* ------------------------------------------------------------------------
\* Properties of truncation and of the single-writer discipline
\* ------------------------------------------------------------------------
\* a step of this window that removes nodes from the graph (裁去, or the
\* truncation to the bright prefix made by 发送 and 反思); the length n it
\* truncates to is the cursor it leaves
Truncates ==
    /\ shen' = shen
    /\ Total(flow_steps', nodes') < Total(flow_steps, nodes)

\* C18 (as stated): for every n with 0 <= n <= current length, after the
\* graph is truncated to its first n nodes, isFullyBright(n) holds on the
\* resulting graph.
C18_TruncatedIsFullyBright ==
    [][Truncates => _is_flowchart_fully_bright(flow_steps', nodes', num_bright')]_vars

\* C18 (amended): for every n with 1 <= n <= current length, after the graph
\* is truncated to its first n nodes, isFullyBright(n) holds on the
\* resulting graph.
C18_NonEmptyTruncatedIsFullyBright ==
    [][(Truncates /\ num_bright' >= 1)
         => _is_flowchart_fully_bright(flow_steps', nodes', num_bright')]_vars

C18_Witness ==
    /\ shen = 1
    /\ max_id_ever = 3
    /\ Len(nodes) = 1
    /\ Len(flow_steps) = 1
    /\ num_bright = 1
    /\ workers = <<>>

\* C20: while a fragment-generating operation (反思 or the merge of 发送) is
\* in flight on a background thread, no second fragment-generating operation
\* and no 亮少 or 裁去 is started on the same graph.
C20_SingleWriter ==
    [][(FragmentInFlight /\ shen' = shen)
         => /\ num_bright' = num_bright
            /\ ~Truncates
            /\ Len(workers') <= Len(workers)]_vars

\* a node's db_content_id names a stored row with the node's text
RefMatches(n) ==
    n.db_content_id # 0 =>
        /\ n.db_content_id \in 1..Len(st.content)
        /\ st.content[n.db_content_id].content = n.text

\* C21: in every reachable state a node that carries a contentRef has the
\* text of the content row it references; mutateText clears the contentRef,
\* so a later save stores the mutated text through getOrInsert and never
\* records the stale content id.
C21_ContentRefMatchesText ==
    /\ \A k \in 1..Len(st.loaded.nodes) : RefMatches(st.loaded.nodes[k])
    /\ \A s \in Savers :
         /\ \A k \in 1..Len(st.savers[s].g.nodes) : RefMatches(st.savers[s].g.nodes[k])
         /\ st.savers[s].pc = "ok" =>
              \A k \in 1..Len(st.savers[s].g.nodes) :
                st.content[st.savers[s].node_ids[k]].content = st.savers[s].g.nodes[k].text

C21_Witness ==
    /\ st.savers[2].pc = "ok"
    /\ Len(st.savers[2].g.nodes) = 3
    /\ st.savers[2].g.nodes[1].db_content_id = 1
    /\ st.savers[2].g.nodes[2].db_content_id = 0
    /\ st.savers[2].g.nodes[2].text = <<"b", "~", "x">>
    /\ st.savers[2].node_ids = <<1, 3, 1>>

\* ---------------------------------------------------------------------
\* The trace file: _load_external_memory
\* ---------------------------------------------------------------------

MaxFileLen ==
    2

\* an element of the file's nodes array: an object with id and text, or a
\* JSON value that is not an object
FileNode(i, tx) ==
    [dict |-> TRUE, id |-> i, text |-> tx]

FileScalar ==
    [dict |-> FALSE, id |-> 0, text |-> <<>>]

FileNodeValues ==
    { FileNode(1, <<"a">>), FileNode(2, <<"b">>), FileNode(1, <<>>), FileScalar }

FileStepValues ==
    { <<"a">>, <<"c">> }

\* what the path holds: nothing, text that is not JSON, JSON whose top value
\* is an array, or a JSON object with its nodes and flow_steps
FileOf(exists, json, ns, steps) ==
    [exists |-> exists, json |-> json, nodes |-> ns, flow_steps |-> steps]

FileContents ==
    { FileOf(FALSE, "invalid", <<>>, <<>>),
      FileOf(TRUE, "invalid", <<>>, <<>>),
      FileOf(TRUE, "array", <<>>, <<>>) }
    \cup { FileOf(TRUE, "object", ns, steps) :
             ns \in SeqsUpTo(FileNodeValues, MaxFileLen),
             steps \in SeqsUpTo(FileStepValues, MaxFileLen) }

LoadNone ==
    [kind |-> "None", flow_steps |-> <<>>, has_spec |-> FALSE, nodes |-> <<>>]

LoadRaise ==
    [kind |-> "raise", flow_steps |-> <<>>, has_spec |-> FALSE, nodes |-> <<>>]

\* os.path.isfile and json.load inside the try return None; data.get on a
\* value that is not an object and n.get on an element that is not an object
\* raise AttributeError after the try
_load_external_memory(file) ==
    IF ~file.exists THEN LoadNone
    ELSE IF file.json = "invalid" THEN LoadNone
    ELSE IF file.json # "object" THEN LoadRaise
    ELSE IF file.nodes = <<>> /\ file.flow_steps = <<>> THEN LoadNone
    ELSE IF file.nodes # <<>> /\ file.flow_steps = <<>>
              /\ \E k \in 1..Len(file.nodes) : ~file.nodes[k].dict
           THEN LoadRaise
    ELSE [kind |-> "graph",
          flow_steps |-> IF file.nodes # <<>> /\ file.flow_steps = <<>>
                           THEN [k \in 1..Len(file.nodes) |-> file.nodes[k].text]
                           ELSE file.flow_steps,
          has_spec |-> file.nodes # <<>>,
          nodes |-> file.nodes]

InitLoadFile ==
    /\ EditorIdle
    /\ mq = MqOff
    /\ st = StOff
    /\ \E file \in FileContents :
         fx = [pc |-> "load_call", file |-> file, out |-> LoadNone]

do_load_file ==
    /\ fx.pc = "load_call"
    /\ fx' = [fx EXCEPT !.pc = "load_done", !.out = _load_external_memory(fx.file)]
    /\ UNCHANGED <<evars, mq, st>>

NextLoadFile ==
    do_load_file

SpecLoadFile ==
    InitLoadFile /\ [][NextLoadFile]_vars

\* the file holds a node: its nodes array or its flow_steps array has an
\* element
FileHoldsNode(file) ==
    file.exists /\ file.json = "object"
      /\ (file.nodes # <<>> \/ file.flow_steps # <<>>)

\* C22: loading the trace file never raises; a missing file, a file that is
\* not valid JSON and a parsed file with no node give the 'not found'
\* result, and a graph is returned only when the file holds a node.
C22_LoadNeverRaises ==
    fx.pc = "load_done" =>
        /\ fx.out.kind # "raise"
        /\ ~FileHoldsNode(fx.file) => fx.out.kind = "None"
        /\ fx.out.kind = "graph" => FileHoldsNode(fx.file)

\* ---------------------------------------------------------------------
\* Cursor arithmetic of the interactive window
\* ---------------------------------------------------------------------

\* C23: cutFrom(k) with 1 <= k <= cursor leaves exactly the first k-1 nodes,
\* unchanged and in order, and exactly the edges whose both endpoints are
\* among them, and sets the cursor to min(cursor, k-1).
C23_CutLeavesPrefix ==
    [][\A k \in 1..(MaxNodes + 1) :
          (k <= num_bright /\ _on_caiqu(k))
            => /\ flow_steps' = SubSeq(flow_steps, 1, k - 1)
               /\ nodes # <<>> => nodes' = SubSeq(nodes, 1, k - 1)
               /\ edges' = SelectSeq(edges, LAMBDA e :
                              /\ \E i \in 1..(k - 1) : nodes[i].id = e.from
                              /\ \E i \in 1..(k - 1) : nodes[i].id = e.to)
               /\ num_bright' = IF num_bright < k - 1 THEN num_bright ELSE k - 1]_vars

C23_Witness ==
    /\ Len(nodes) = 2
    /\ nodes[1] = Node(1, "diamond", <<"a">>)
    /\ edges = << Edge(1, 2, "y") >>
    /\ num_bright = 2
    /\ max_id_ever = 3
    /\ shen = 2
    /\ chat_empty

\* the states of the window by (length, cursor)
StateEmpty(len, cursor) ==
    len = 0

StatePartial(len, cursor) ==
    0 < cursor /\ cursor < len

StateFull(len, cursor) ==
    cursor >= len /\ len > 0

\* what 亮少 does to cursor and graph
DimLastStep ==
    /\ num_bright' = Max2(num_bright - 1, 0)
    /\ flow_steps' = flow_steps
    /\ nodes' = nodes
    /\ edges' = edges

\* C24 as stated: dimLast sets the cursor to max(cursor-1, 0), leaves nodes
\* and edges unchanged and, applied in a partial or full state, yields a
\* partial or an empty state.
C24_DimLastPartialOrEmpty ==
    [][_on_liangshao =>
         /\ DimLastStep
         /\ ( StatePartial(Total(flow_steps, nodes), num_bright)
              \/ StateFull(Total(flow_steps, nodes), num_bright) )
            => ( StatePartial(Total(flow_steps', nodes'), num_bright')
                 \/ StateEmpty(Total(flow_steps', nodes'), num_bright') )]_vars

\* C24 (amended): dimLast sets the cursor to max(cursor-1, 0) and leaves nodes
\* and edges unchanged; applied in a partial or full state it yields a
\* non-empty state: partial when 1 < cursor <= length, cursor 0 when the
\* cursor was 1, and full when the cursor exceeded the length.
C24_DimLastByCursor ==
    [][_on_liangshao =>
         /\ DimLastStep
         /\ ( StatePartial(Total(flow_steps, nodes), num_bright)
              \/ StateFull(Total(flow_steps, nodes), num_bright) )
            => /\ ~StateEmpty(Total(flow_steps', nodes'), num_bright')
               /\ (1 < num_bright /\ num_bright <= Total(flow_steps, nodes))
                    => StatePartial(Total(flow_steps', nodes'), num_bright')
               /\ num_bright = 1 => num_bright' = 0
               /\ num_bright > Total(flow_steps, nodes)
                    => StateFull(Total(flow_steps', nodes'), num_bright')]_vars

C24_Witness ==
    /\ num_bright = 0
    /\ Total(flow_steps, nodes) = 3
    /\ edges = << Edge(1, 2, "y"), Edge(1, 3, "n") >>

\* the click of 反思 keeps the bright prefix and the cursor
ReflectTruncates ==
    \A use_bright \in BOOLEAN :
      _on_fansi(use_bright) =>
        /\ num_bright > 0
        /\ flow_steps' = SubSeq(flow_steps, 1, Min2(num_bright, Len(flow_steps)))
        /\ nodes # <<>> => nodes' = SubSeq(nodes, 1, Min2(num_bright, Len(nodes)))
        /\ num_bright' = num_bright

\* the merge of the 反思 thread: the graph it appends to is the bright
\* prefix kept at the click, and the cursor is left alone
ReflectMerges(w) ==
    (workers[w].kind = "fansi" /\ MergeAppend(w)) =>
        /\ Len(nodes) <= workers[w].nb
        /\ Len(nodes') = Len(nodes) + Len(workers[w].new_nodes)
        /\ SubSeq(nodes', 1, Len(nodes)) = nodes
        /\ NodeTexts(SubSeq(nodes', Len(nodes) + 1, Len(nodes')))
             = NodeTexts(workers[w].new_nodes)
        /\ num_bright' = num_bright

\* C25: reflect is only executed when cursor > 0; after a reflect that
\* accepts a fragment the graph is the former bright prefix followed by the
\* filtered fragment's nodes, every former dim node is gone and the cursor
\* has the value it had before, so all merged nodes are dim.
C25_ReflectMergedNodesDim ==
    [][/\ ReflectTruncates
       /\ \A w \in 1..Len(workers) :
            /\ ReflectMerges(w)
            /\ (workers[w].kind = "fansi" /\ MergeAppend(w)) =>
                 \A i \in (Len(nodes) + 1)..Len(nodes') : i > num_bright']_vars

\* C26: each accepted continuation step merges the fragment and then sets
\* the cursor to min(cursor+1, new length): the merge of a send thread
\* leaves the cursor alone, and 继续交互 on the graph a merge has left (which
\* holds at least the merged nodes) moves the cursor by one, or to the
\* length, whatever the number of nodes the fragment added.
C26_ContinueAdvancesByOne ==
    [][/\ \A w \in 1..Len(workers) :
            (workers[w].kind = "send" /\ MergeAppend(w)) => num_bright' = num_bright
       /\ (on_continue /\ Total(flow_steps, nodes) > 0) =>
            /\ num_bright' = Min2(num_bright + 1, Total(flow_steps', nodes'))
            /\ (num_bright' = num_bright + 1
                  \/ num_bright' = Total(flow_steps', nodes'))]_vars

C26_Witness ==
    /\ shen = 2
    /\ Len(nodes) = 3
    /\ nodes[2].text = <<"e">>
    /\ nodes[3].text = <<" ", "b">>
    /\ num_bright = 2

\* ---------------------------------------------------------------------
\* Opening the interactive window from the main window
\* ---------------------------------------------------------------------

\* self.flow_steps / self.flow_spec of the main window before 交互模式: one of
\* the graphs, or nothing yet
MainGraphs ==
    InitGraphs \cup { [steps |-> <<>>, nodes |-> <<>>, edges |-> <<>>] }

InitMain ==
    /\ \E g \in MainGraphs :
        /\ flow_steps = g.steps
        /\ nodes = g.nodes
        /\ edges = g.edges
        /\ max_id_ever = IF g.nodes = <<>> THEN 0 ELSE LastId(g.nodes)
    /\ num_bright = 0
    /\ send_btn = "normal"
    /\ continue_btn = "disabled"
    /\ chat_empty = TRUE
    /\ shen = 1
    /\ workers = <<>>
    /\ after_enable = FALSE
    /\ save_pending = FALSE
    /\ mq = MqOff
    /\ st = StOff
    /\ fx = [pc |-> "main"]

\* 交互模式: with a graph in the main window, _open_interactive_window(shen)
\* copies it and starts the window with num_bright = None
_on_interactive_mode ==
    /\ fx.pc = "main"
    /\ Len(flow_steps) > 0 \/ nodes # <<>>
    /\ fx' = [pc |-> "window"]
    /\ num_bright' = OpenBright(0)
    /\ send_btn' = AutoSendBtn(flow_steps, nodes, num_bright')
    /\ continue_btn' = update_continue_btn_state(flow_steps, nodes, num_bright')
    /\ workers' = AutoWorkers(flow_steps, nodes, num_bright')
    /\ UNCHANGED <<flow_steps, nodes, edges, chat_empty, shen, after_enable,
                   save_pending, max_id_ever, mq, st>>

NextOpen ==
    \/ _on_interactive_mode
    \/ (fx.pc = "window" /\ Next)

SpecOpen ==
    InitMain /\ [][NextOpen]_vars

\* C27: when an interaction is opened on a graph of any length >= 1, the
\* initial cursor is min(2, length).
C27_OpensAtMinTwoLength ==
    [][(_on_interactive_mode /\ Total(flow_steps, nodes) >= 1)
         => num_bright' = Min2(2, Total(flow_steps', nodes'))]_vars

\* C28: merging an accepted fragment into a graph that has become empty
\* succeeds: the thread that received the fragment goes on to append its
\* nodes with fresh ids and its remapped edges, without a connecting edge.
C28_MergeIntoEmptySucceeds ==
    [][\A w \in 1..Len(workers) : \A frag \in Fragments :
          (Total(flow_steps, nodes) = 0 /\ FragmentReply(w, frag))
            => /\ Len(workers') = Len(workers)
               /\ workers'[w].pc = "merge"
               /\ workers'[w].new_nodes # <<>>]_vars

\* ---------------------------------------------------------------------
\* Fragment parsing: _extract_flowchart_json_from_content
\* ---------------------------------------------------------------------
\* A reply is a sequence of pieces of text: "S" is the start marker
\* ---思维链流程图JSON---, "E" the end marker ---END---, "x" other text, "{" and
\* "}" braces, "n:" "e:" "m:" the keys "nodes": "edges": "m":, "[]" "[1]" "5"
\* "null" values without braces, and "tq" the member "t":"}" whose string
\* holds a closing brace. Members follow each other with their commas.

MaxMembers ==
    2

Keys ==
    { "n:", "e:", "m:" }

ScalarValues ==
    { "[]", "[1]", "5", "null" }

\* what can stand between the braces of the reply's object
ReplyMembers ==
    { <<k, v>> : k \in {"n:", "e:"}, v \in ScalarValues }
      \cup { <<"n:", "{", "}">>, <<"m:", "{", "e:", "[]", "}">>, <<"tq">>,
             <<"x">>, <<"n:">> }

RECURSIVE Flatten(_)
Flatten(ss) ==
    IF ss = <<>> THEN <<>> ELSE Head(ss) \o Flatten(Tail(ss))

ReplyRegions ==
    { <<>>, <<"x">>, <<"{">> }
      \cup { <<"{">> \o Flatten(ms) \o <<"}">> : ms \in SeqsUpTo(ReplyMembers, MaxMembers) }

ReplyContents ==
    { pre \o region \o post :
        pre \in { <<>>, <<"S">>, <<"x", "S">>, <<"E", "x", "S">> },
        region \in ReplyRegions,
        post \in { <<>>, <<"E">>, <<"}", "x", "E">> } }

\* str.find: the first position of a piece, 0 when absent
FindTok(s, t) ==
    IF \E i \in 1..Len(s) : s[i] = t
      THEN SetMin({i \in 1..Len(s) : s[i] = t})
      ELSE 0

\* depth after the pieces i..j when the pieces in closers count as '}'
RECURSIVE Depth(_, _, _, _)
Depth(s, i, j, closers) ==
    IF j < i THEN 0
    ELSE Depth(s, i, j - 1, closers)
           + (IF s[j] = "{" THEN 1 ELSE IF s[j] \in closers THEN -1 ELSE 0)

\* the first position from i on where a closing brace brings the depth to 0
MatchEnd(s, i, closers) ==
    LET ends == {j \in i..Len(s) : s[j] \in closers /\ Depth(s, i, j, closers) = 0}
    IN  IF ends = {} THEN 0 ELSE SetMin(ends)

\* json.loads on the text between two braces: members are a key and a value
\* or the member "t":"}"; a value is a scalar or an object
RECURSIVE ValidMembers(_)
ValidMembers(s) ==
    IF s = <<>> THEN TRUE
    ELSE IF s[1] = "tq" THEN ValidMembers(Tail(s))
    ELSE IF s[1] \in Keys /\ Len(s) >= 2
      THEN IF s[2] \in ScalarValues THEN ValidMembers(SubSeq(s, 3, Len(s)))
           ELSE IF s[2] = "{"
             THEN LET j == MatchEnd(s, 2, {"}"})
                  IN  /\ j # 0
                      /\ ValidMembers(SubSeq(s, 3, j - 1))
                      /\ ValidMembers(SubSeq(s, j + 1, Len(s)))
           ELSE FALSE
    ELSE FALSE

\* dict.get(key) on the parsed object: the value of the last member with the
\* key, "missing" without one; an object value is "{}" or "obj"
RECURSIVE TopValue(_, _, _)
TopValue(s, key, acc) ==
    IF s = <<>> THEN acc
    ELSE IF s[1] = "tq" THEN TopValue(Tail(s), key, acc)
    ELSE IF s[2] \in ScalarValues
      THEN TopValue(SubSeq(s, 3, Len(s)), key, IF s[1] = key THEN s[2] ELSE acc)
      ELSE LET j == MatchEnd(s, 2, {"}"})
           IN  TopValue(SubSeq(s, j + 1, Len(s)), key,
                        IF s[1] = key THEN (IF j = 3 THEN "{}" ELSE "obj") ELSE acc)

ParseFailed ==
    [ok |-> FALSE, nodes |-> "missing", edges |-> "missing"]

\* json.loads(block[i:j + 1]): JSONDecodeError or the parsed object
json_loads(text) ==
    IF /\ Len(text) >= 2
       /\ text[1] = "{"
       /\ text[Len(text)] = "}"
       /\ ValidMembers(SubSeq(text, 2, Len(text) - 1))
      THEN [ok |-> TRUE,
            nodes |-> TopValue(SubSeq(text, 2, Len(text) - 1), "n:", "missing"),
            edges |-> TopValue(SubSeq(text, 2, Len(text) - 1), "e:", "missing")]
      ELSE ParseFailed

\* bool(value) of a parsed value
Truthy(v) ==
    v \in { "[1]", "5", "obj" }

EdgesGiven_AnyAccepted(v) ==
    TRUE

\* parsed.get('edges') is not None
EdgesGiven(v) ==
    v \notin { "missing", "null" }

\* content[start_idx:end_idx]: the text after the first start marker and
\* before the first end marker
BlockOf(content) ==
    SubSeq(content, FindTok(content, "S") + 1, FindTok(content, "E") - 1)

\* the scan of the block from its first '{': every '}' character lowers the
\* depth, also the one inside "t":"}", and the text up to the first return to
\* depth 0 is parsed
_extract_flowchart_json_from_content(content) ==
    IF content = <<>> THEN ParseFailed
    ELSE IF FindTok(content, "S") = 0 \/ FindTok(content, "E") = 0 THEN ParseFailed
    ELSE LET block == BlockOf(content)
             i == FindTok(block, "{")
             j == IF i = 0 THEN 0 ELSE MatchEnd(block, i, {"}", "tq"})
             parsed == IF j = 0 \/ block[j] = "tq" THEN ParseFailed
                       ELSE json_loads(SubSeq(block, i, j))
         IN  IF parsed.ok /\ Truthy(parsed.nodes) /\ EdgesGiven(parsed.edges)
               THEN parsed
               ELSE ParseFailed

InitExtract ==
    /\ EditorIdle
    /\ mq = MqOff
    /\ st = StOff
    /\ \E content \in ReplyContents :
         fx = [pc |-> "extract_call", content |-> content, out |-> ParseFailed]

extract_apply ==
    /\ fx.pc = "extract_call"
    /\ fx' = [fx EXCEPT !.pc = "extract_done",
                        !.out = _extract_flowchart_json_from_content(fx.content)]
    /\ UNCHANGED <<evars, mq, st>>

NextExtract ==
    extract_apply

SpecExtract ==
    InitExtract /\ [][NextExtract]_vars

\* the delimited block holds a JSON object whose nodes value is one of
\* nodes_ok and whose edges field is present
BlockHoldsObject(content, nodes_ok) ==
    /\ FindTok(content, "S") # 0
    /\ FindTok(content, "E") # 0
    /\ \E i \in 1..Len(BlockOf(content)) : \E j \in i..Len(BlockOf(content)) :
         LET parsed == json_loads(SubSeq(BlockOf(content), i, j))
         IN  parsed.ok /\ parsed.nodes \in nodes_ok /\ parsed.edges # "missing"

MaxQueryLen ==
    3

\* label tables: those of the matcher and one whose labels hold an inner
\* blank and a single capital
SearchRowSets ==
    RowSets \cup { << Row(3, <<"d", " ", "e">>), Row(1, <<"B">>), Row(2, <<" ">>) >> }

SearchQueries ==
    SeqsUpTo({"a", "B", " ", "e"}, MaxQueryLen)

InitSearch ==
    /\ EditorIdle
    /\ mq = MqOff
    /\ st = StOff
    /\ \E rows \in SearchRowSets, query \in SearchQueries :
         fx = [pc |-> "search_call", rows |-> rows, query |-> query, out |-> 0]

search_apply ==
    /\ fx.pc = "search_call"
    /\ fx' = [fx EXCEPT !.pc = "search_done",
                        !.out = _string_search_retrieval_label(fx.rows, fx.query)]
    /\ UNCHANGED <<evars, mq, st>>

NextSearch ==
    search_apply

SpecSearch ==
    InitSearch /\ [][NextSearch]_vars

\* the characters of a text, trimmed and in lower case
CharsOf(text) ==
    { Lower(Strip(text))[i] : i \in 1..Len(Strip(text)) }

\* some label that is not blank has a character of the query
SomeLabelShares(rows, query) ==
    \E k \in 1..Len(rows) :
        CharsOf(rows[k].label_text) \cap CharsOf(query) # {}

MaxLimit ==
    2

MaxLabelNodes ==
    3

\* contents[0][:300], the fallback of _build_retrieval_label
FallbackCap ==
    300

\* contents[0][:500], the label of a graph of one node
SingleCap ==
    500

\* s[:n] of Python: the first n characters, or all but the last -n
Slice(s, n) ==
    IF n >= 0 THEN SubSeq(s, 1, Min2(n, Len(s)))
    ELSE SubSeq(s, 1, Max2(Len(s) + n, 0))

LabelTexts ==
    { <<>>, <<" ">>, <<"a">>, <<"a", " ">>, <<" ", "b">> }

LabelContents ==
    SeqsUpTo(LabelTexts, MaxLabelNodes) \ { <<>> }

RawPartsModes ==
    { "after_first_and_before_last", "all", "first_only", "last_only" }

LabelConfigs ==
    [raw_parts : RawPartsModes,
     after_first_limit : 0..MaxLimit,
     before_last_limit : 0..MaxLimit,
     separator : { LabelSep }]

\* sep.join(texts)
RECURSIVE JoinSep(_, _)
JoinSep(texts, sep) ==
    IF texts = <<>> THEN <<>>
    ELSE IF Len(texts) = 1 THEN texts[1]
    ELSE texts[1] \o sep \o JoinSep(Tail(texts), sep)

RawParts_Untruncated(cfg, contents) ==
    IF cfg.raw_parts = "first_only" THEN << contents[1] >>
    ELSE IF cfg.raw_parts = "last_only" THEN << contents[Len(contents)] >>
    ELSE IF cfg.raw_parts = "all" THEN << Join(contents) >>
    ELSE LET after_first == Join(Tail(contents))
             before_last == Join(SubSeq(contents, 1, Len(contents) - 1))
         IN  IF after_first # <<>> \/ before_last # <<>>
               THEN << after_first, before_last >>
               ELSE << Slice(contents[1], FallbackCap) >>

\* the list `parts` for two nodes or more
RawParts(cfg, contents) ==
    IF cfg.raw_parts = "first_only"
      THEN << Slice(contents[1], cfg.after_first_limit) >>
    ELSE IF cfg.raw_parts = "last_only"
      THEN << Slice(contents[Len(contents)], cfg.before_last_limit) >>
    ELSE IF cfg.raw_parts = "all"
      THEN << Slice(Join(contents), cfg.after_first_limit + cfg.before_last_limit) >>
    ELSE LET after_first == Slice(Join(Tail(contents)), cfg.after_first_limit)
             before_last == Slice(Join(SubSeq(contents, 1, Len(contents) - 1)),
                                  cfg.before_last_limit)
         IN  IF after_first # <<>> \/ before_last # <<>>
               THEN << after_first, before_last >>
               ELSE << Slice(contents[1], FallbackCap) >>

DropBlank_KeepAll(parts) ==
    parts

\* (p for p in parts if p.strip())
DropBlank(parts) ==
    SelectSeq(parts, LAMBDA t : Strip(t) # <<>>)

\* _build_retrieval_label under configuration cfg, on the node contents
build_retrieval_label_cfg(cfg, contents) ==
    IF contents = <<>> THEN <<>>
    ELSE IF Len(contents) = 1 THEN Slice(contents[1], SingleCap)
    ELSE LET joined == Strip(JoinSep(DropBlank(RawParts(cfg, contents)), cfg.separator))
         IN  IF joined # <<>> THEN joined ELSE Slice(contents[1], FallbackCap)

InitLabel ==
    /\ EditorIdle
    /\ mq = MqOff
    /\ st = StOff
    /\ \E cfg \in LabelConfigs, contents \in LabelContents :
         fx = [pc |-> "label_call", cfg |-> cfg, contents |-> contents, out |-> <<>>]

label_apply ==
    /\ fx.pc = "label_call"
    /\ fx' = [fx EXCEPT !.pc = "label_done",
                        !.out = build_retrieval_label_cfg(fx.cfg, fx.contents)]
    /\ UNCHANGED <<evars, mq, st>>

NextLabel ==
    label_apply

SpecLabel ==
    InitLabel /\ [][NextLabel]_vars

\* the text a one-part mode selects and its cap
SelectedText(cfg, contents) ==
    IF cfg.raw_parts = "first_only" THEN contents[1]
    ELSE IF cfg.raw_parts = "last_only" THEN contents[Len(contents)]
    ELSE Join(contents)

ModeCap(cfg) ==
    IF cfg.raw_parts = "first_only" THEN cfg.after_first_limit
    ELSE IF cfg.raw_parts = "last_only" THEN cfg.before_last_limit
    ELSE cfg.after_first_limit + cfg.before_last_limit

OnePartCase ==
    /\ fx.pc = "label_done"
    /\ Len(fx.contents) >= 2
    /\ fx.cfg.raw_parts \in { "first_only", "last_only", "all" }

\* C31 as stated: with two nodes or more, first_only, last_only and all return
\* the selected text truncated to the mode's cap, so the result is never
\* longer than the cap.
C31_OnePartWithinCap ==
    OnePartCase =>
        /\ fx.out = Slice(SelectedText(fx.cfg, fx.contents), ModeCap(fx.cfg))
        /\ Len(fx.out) <= ModeCap(fx.cfg)

\* C31 (amended): the result is the selected text truncated to the mode's
\* cap and trimmed, never longer than the cap, unless that truncated text is
\* blank: then it is the first node's text truncated to 300.
C31_OnePartTrimmedOrFallback ==
    OnePartCase =>
        LET cut == Slice(SelectedText(fx.cfg, fx.contents), ModeCap(fx.cfg))
        IN  IF Strip(cut) # <<>>
              THEN fx.out = Strip(cut) /\ Len(fx.out) <= ModeCap(fx.cfg)
              ELSE fx.out = Slice(fx.contents[1], FallbackCap)

C31_Witness ==
    /\ fx.pc = "label_done"
    /\ fx.cfg.raw_parts = "all"
    /\ fx.cfg.after_first_limit = 1
    /\ fx.cfg.before_last_limit = 1
    /\ fx.contents = << <<" ", "b">>, <<"a">> >>
    /\ fx.out = <<"b">>

TwoPartCase ==
    /\ fx.pc = "label_done"
    /\ Len(fx.contents) >= 2
    /\ fx.cfg.raw_parts = "after_first_and_before_last"

\* all nodes after the first, truncated to after_first_limit
AfterFirst(cfg, contents) ==
    Slice(Join(Tail(contents)), cfg.after_first_limit)

\* all nodes before the last, truncated to before_last_limit
BeforeLast(cfg, contents) ==
    Slice(Join(SubSeq(contents, 1, Len(contents) - 1)), cfg.before_last_limit)

\* C32 as stated: in the default mode with two nodes or more the result is
\* the two parts joined by the separator (a part that is empty is not
\* joined), and only when both parts are empty is it the first node's text
\* truncated to 300.
C32_TwoPartsJoined ==
    TwoPartCase =>
        LET a == AfterFirst(fx.cfg, fx.contents)
            b == BeforeLast(fx.cfg, fx.contents)
        IN  IF a = <<>> /\ b = <<>>
              THEN fx.out = Slice(fx.contents[1], FallbackCap)
              ELSE fx.out = JoinSep(SelectSeq(<<a, b>>, LAMBDA t : t # <<>>),
                                    fx.cfg.separator)

\* C32 (amended): the result is the parts that are not blank, joined by the
\* separator and trimmed; only when both parts are blank is it the first
\* node's text truncated to 300, with or without its surrounding blanks.
C32_NonBlankPartsJoinedTrimmed ==
    TwoPartCase =>
        LET a == AfterFirst(fx.cfg, fx.contents)
            b == BeforeLast(fx.cfg, fx.contents)
        IN  IF Strip(a) = <<>> /\ Strip(b) = <<>>
              THEN Strip(fx.out) = Strip(Slice(fx.contents[1], FallbackCap))
              ELSE fx.out = Strip(JoinSep(SelectSeq(<<a, b>>, LAMBDA t : Strip(t) # <<>>),
                                          fx.cfg.separator))

C32_Witness ==
    /\ fx.pc = "label_done"
    /\ fx.cfg.raw_parts = "after_first_and_before_last"
    /\ fx.cfg.after_first_limit = 2
    /\ fx.cfg.before_last_limit = 2
    /\ fx.contents = << <<"a">>, <<" ", "b">> >>
    /\ fx.out = <<"b", " ", "|", " ", "a">>

\* ---------------------------------------------------------------------
\* The stored label as a function of the configuration
\* ---------------------------------------------------------------------

\* raw_label[:500] stored when the formatted label is empty
LabelRowCap ==
    500

FormatModes ==
    { "ai", "raw", "custom" }

\* custom_template; the piece "{raw_label}" is the placeholder
FormatTemplates ==
    { << "{raw_label}" >>, << "t", "{raw_label}" >>, << "t" >> }

FormatConfigs ==
    [format_mode : FormatModes,
     custom_template : FormatTemplates,
     output_max_len : (0 - 1)..MaxLimit]

RawLabels ==
    { <<>>, <<" ">>, <<"a">>, <<" ", "a">>, <<"a", "b", " ">> }

\* body of the completion call for the label prompt
FormatReplies ==
    { <<>>, <<" ">>, <<"s", "s", "s">>, <<" ", "s">> }

\* tpl.replace('{raw_label}', raw_label)
RECURSIVE ReplaceRawLabel(_, _)
ReplaceRawLabel(tpl, raw_label) ==
    IF tpl = <<>> THEN <<>>
    ELSE (IF Head(tpl) = "{raw_label}" THEN raw_label ELSE << Head(tpl) >>)
           \o ReplaceRawLabel(Tail(tpl), raw_label)

apply_label_text_format_cfg_Untrimmed(cfg, raw_label, reply, ok) ==
    IF Strip(raw_label) = <<>> THEN Slice(raw_label, cfg.output_max_len)
    ELSE IF cfg.format_mode = "raw" THEN Slice(raw_label, cfg.output_max_len)
    ELSE IF cfg.format_mode = "custom"
      THEN Slice(ReplaceRawLabel(cfg.custom_template, raw_label), cfg.output_max_len)
    ELSE IF ok /\ Strip(reply) # <<>> THEN Slice(Strip(reply), cfg.output_max_len)
    ELSE Slice(raw_label, cfg.output_max_len)

\* _apply_label_text_format under configuration cfg; ok is FALSE when the
\* completion call raises, reply is its body otherwise
apply_label_text_format_cfg(cfg, raw_label, reply, ok) ==
    IF Strip(raw_label) = <<>> THEN Slice(raw_label, cfg.output_max_len)
    ELSE IF cfg.format_mode = "raw" THEN Slice(Strip(raw_label), cfg.output_max_len)
    ELSE IF cfg.format_mode = "custom"
      THEN Slice(ReplaceRawLabel(cfg.custom_template, Strip(raw_label)), cfg.output_max_len)
    ELSE IF ok /\ Strip(reply) # <<>> THEN Slice(Strip(reply), cfg.output_max_len)
    ELSE Slice(Strip(raw_label), cfg.output_max_len)

InitFormat ==
    /\ EditorIdle
    /\ mq = MqOff
    /\ st = StOff
    /\ \E cfg \in FormatConfigs, raw_label \in RawLabels,
          reply \in FormatReplies, ok \in BOOLEAN :
         fx = [pc |-> "format_call", cfg |-> cfg, raw_label |-> raw_label,
               reply |-> reply, ok |-> ok, out |-> <<>>, label |-> <<>>]

\* label_text = _apply_label_text_format(raw_label, mode, ..)
format_apply ==
    /\ fx.pc = "format_call"
    /\ fx' = [fx EXCEPT !.pc = "format_done",
                        !.out = apply_label_text_format_cfg(fx.cfg, fx.raw_label,
                                                            fx.reply, fx.ok)]
    /\ UNCHANGED <<evars, mq, st>>

\* INSERT INTO retrieval_label .. (session_id, label_text or raw_label[:500])
format_store ==
    /\ fx.pc = "format_done"
    /\ fx' = [fx EXCEPT !.pc = "stored",
                        !.label = IF fx.out # <<>> THEN fx.out
                                  ELSE Slice(fx.raw_label, LabelRowCap)]
    /\ UNCHANGED <<evars, mq, st>>

NextFormat ==
    \/ format_apply
    \/ format_store

SpecFormat ==
    InitFormat /\ [][NextFormat]_vars

\* the completion call was made and raised or gave a blank text
FormatCallFailed ==
    /\ fx.pc \in { "format_done", "stored" }
    /\ fx.cfg.format_mode = "ai"
    /\ Strip(fx.raw_label) # <<>>
    /\ ~fx.ok \/ Strip(fx.reply) = <<>>

\* C33 as stated: in ai mode, when the completion call raises or returns a
\* blank text the result is the raw label truncated to output_max_len and the
\* save goes on to store a label; in every mode the result is at most
\* output_max_len long.
C33_FailedFormatGivesRawLabel ==
    /\ FormatCallFailed => fx.out = Slice(fx.raw_label, fx.cfg.output_max_len)
    /\ (FormatCallFailed /\ fx.pc = "stored") =>
         fx.label = (IF fx.out # <<>> THEN fx.out ELSE Slice(fx.raw_label, LabelRowCap))
    /\ fx.pc \in { "format_done", "stored" } => Len(fx.out) <= fx.cfg.output_max_len

\* C33 (amended): the result is the trimmed raw label truncated to
\* output_max_len, and the bound on the length holds for an output_max_len
\* that is not negative.
C33_FailedFormatGivesTrimmedRawLabel ==
    /\ FormatCallFailed => fx.out = Slice(Strip(fx.raw_label), fx.cfg.output_max_len)
    /\ (FormatCallFailed /\ fx.pc = "stored") =>
         fx.label = (IF fx.out # <<>> THEN fx.out ELSE Slice(fx.raw_label, LabelRowCap))
    /\ (fx.pc \in { "format_done", "stored" } /\ fx.cfg.output_max_len >= 0)
         => Len(fx.out) <= fx.cfg.output_max_len

C33_Witness ==
    /\ fx.pc = "stored"
    /\ fx.cfg.format_mode = "ai"
    /\ fx.cfg.output_max_len = 1
    /\ ~fx.ok
    /\ fx.raw_label = <<" ", "a">>
    /\ fx.out = <<"a">>
    /\ fx.label = <<"a">>

\* ---------------------------------------------------------------------
\* The matcher's result and the AI's reply
\* ---------------------------------------------------------------------

\* C34: whatever the completion service replies and whichever path produces
\* the result, the sessionId that matchQuery produces, and the one it loads,
\* is 0 or the sessionId of a stored label.
C34_ResultIsZeroOrStored ==
    /\ Matched => mq.session_id \in ({0} \cup SessionIds(mq.rows))
    /\ mq.pc = "done" => mq.loaded \in ({0} \cup SessionIds(mq.rows))

C34_Witness ==
    /\ mq.pc = "done"
    /\ ~AIPassFailed
    /\ mq.ai = "returned"
    /\ mq.body = <<9, 3>>
    /\ SessionIds(mq.rows) = {1, 2}
    /\ mq.session_id = 0
    /\ mq.msg = "not_found"

\* the AI pass completed in time without raising
AIPassCompleted ==
    Matched /\ mq.ai = "returned" /\ ~AIPassFailed

\* positions of the reply's integers that are stored sessionIds
StoredPositions ==
    {i \in 1..Len(mq.body) : mq.body[i] \in SessionIds(mq.rows)}

\* C35: when the AI pass completes in time without raising and its reply
\* holds no integer that is a stored sessionId, matchQuery reports no match
\* and the substring fallback is not run; when the reply holds several
\* integers, the first one that is a stored sessionId is the result.
C35_ReplyDecides ==
    AIPassCompleted
        => /\ StoredPositions = {}
                => /\ mq.session_id = 0
                   /\ mq.pc = "done" => mq.msg = "not_found" /\ mq.loaded = 0
           /\ StoredPositions # {}
                => mq.session_id = mq.body[SetMin(StoredPositions)]

\* no stored integer in the reply although the fallback would find a label
C35_Witness ==
    /\ mq.pc = "done"
    /\ AIPassCompleted
    /\ mq.body = <<0>>
    /\ _string_search_retrieval_label(mq.rows, mq.query) # 0
    /\ mq.msg = "not_found"

\* several integers in the reply, the second one stored
C35_WitnessSecond ==
    /\ mq.pc = "done"
    /\ AIPassCompleted
    /\ mq.body = <<9, 3>>
    /\ mq.loaded = 3

\* ---------------------------------------------------------------------
\* The merge when the fragment's edges cannot be read
\* ---------------------------------------------------------------------

\* on_send.run / _on_fansi.run from the connecting edge on, for a fragment
\* whose edges value is accepted by the parser but is not a list of objects
\* from its k-th element on (a number, a list holding a number, a `from`
\* that is a list): the connecting edge, the nodes and the first k - 1 edges
\* are appended, then the loop over the edges raises, flow_steps.append is
\* not reached and except/finally run
MergeEdgesRaise(w, k) ==
    /\ w \in 1..Len(workers)
    /\ workers[w].pc = "merge"
    /\ k \in 1..(Len(workers[w].new_edges) + 1)
    /\ Len(nodes) + Len(workers[w].new_nodes) <= MaxNodes
    /\ LET wk == workers[w]
           base_id == wk.last_id + 1
           id_map == IdMap(wk.new_nodes, base_id)
       IN  /\ edges' = (edges \o << Edge(wk.last_id, base_id, "") >>)
                           \o RemapEdges(Prefix(wk.new_edges, k - 1), id_map)
           /\ nodes' = nodes \o AppendedNodes(wk.new_nodes, base_id)
           /\ max_id_ever' = Max2(max_id_ever, base_id + Len(wk.new_nodes) - 1)
           /\ save_pending' = (save_pending \/
                        StartsSave(wk.kind, flow_steps, nodes', num_bright))
    /\ after_enable' = TRUE
    /\ workers' = RemoveAt(workers, w)
    /\ UNCHANGED <<flow_steps, num_bright, send_btn, continue_btn, chat_empty,
                   shen, mq, st, fx>>

\* The window used one operation at a time, with replies whose edges may be
\* unreadable.
NextMerge ==
    \/ NextSerial
    \/ \E w \in 1..2, k \in 1..(MaxFragLen + 1) : MergeEdgesRaise(w, k)

SpecMerge ==
    Init /\ [][NextMerge]_vars

\* the list of step texts and the list of nodes agree
Synced ==
    /\ Len(flow_steps) = Len(nodes)
    /\ \A i \in 1..Len(nodes) : flow_steps[i] = nodes[i].text

\* C36: from a state where the step texts and the nodes have the same length
\* and the same texts position by position, every step of cutFrom, reflect
\* and a send/continueGrowth merge leads to a state where they still have.
C36_StepsAndNodesAgree ==
    [][Synced => Synced']_vars

\* ---------------------------------------------------------------------
\* A session and its label in the committed store
\* ---------------------------------------------------------------------

\* committed retrieval_label rows that reference session sid
LabelsOf(sid) ==
    {i \in 1..Len(st.label) : st.label[i].session_id = sid}

\* C37: in every committed state of the store, under any interleaving of
\* saves and any failure point, each session row has exactly one label row
\* that references it and each label row references an existing session.
C37_SessionAndLabelTogether ==
    st.on =>
        /\ \A sid \in 1..Len(st.session) : Cardinality(LabelsOf(sid)) = 1
        /\ \A i \in 1..Len(st.label) : st.label[i].session_id \in 1..Len(st.session)

\* a save failed after its session row was inserted, and another save has
\* committed a session that received the same id
C37_Witness ==
    /\ st.savers[1].pc = "failed"
    /\ st.savers[1].err
    /\ st.savers[1].sid = 1
    /\ st.savers[2].pc = "ok"
    /\ st.savers[2].sid = 1
    /\ Len(st.session) = 1
    /\ LabelsOf(1) = {1}

\* ---------------------------------------------------------------------
\* 裁去 and 亮少 while a merge is under way
\* ---------------------------------------------------------------------

IdsUnique ==
    \A i, j \in 1..Len(nodes) : nodes[i].id = nodes[j].id => i = j

\* C38: when 裁去 or 亮少 runs while a background merge is between reading
\* the last node id and appending its nodes and edges, the graph that results
\* once both have finished has unique node ids and no edge whose endpoint is
\* missing from the node list.
C38_GraphValidAfterRace ==
    ~FragmentInFlight => IdsUnique /\ EdgesValid

\* ---------------------------------------------------------------------
\* 反思 and 发送 when no fragment is merged
\* ---------------------------------------------------------------------

\* a 发送 or 反思 thread ends without having appended its texts: the call
\* raised, no fragment was read from the reply, or the merge raised
FragmentFails ==
    /\ shen' = shen
    /\ flow_steps' = flow_steps
    /\ \E w \in 1..Len(workers) :
          /\ workers[w].kind \in {"send", "fansi"}
          /\ workers' = RemoveAt(workers, w)

\* C39: if the completion service fails or gives no acceptable fragment
\* during 反思 or during the merge of 发送, the operation ends with the graph
\* it was truncated to before the request, no node or edge added, and with
\* the cursor unchanged.
C39_FailureLeavesGraph ==
    [][FragmentFails
         => /\ nodes' = nodes
            /\ edges' = edges
            /\ num_bright' = num_bright]_vars


====
